---- MODULE Spec2Model ----
(***************************************************************************)
(* Model of the rpkirtr2 RTR cache server: the shared cache               *)
(* (internal/server/cache.go), the refresher (Server.periodicROAUpdater),  *)
(* the acceptor (internal/server/server.go) and the per-connection        *)
(* session driver (Client.Handle and its helpers in                        *)
(* internal/server/client_handler.go), with the PDU decoder                *)
(* (internal/protocol/decode.go, negotiate.go) at the level of PDU fields. *)
(*                                                                         *)
(* Every operation of a goroutine that reads or writes shared state (the   *)
(* cache fields, the cache RWMutex, the client registry, a connection's    *)
(* writer) is a step of its own, so that the interleavings of the Go       *)
(* scheduler are the interleavings of the model.                           *)
(***************************************************************************)
EXTENDS Integers, Sequences, FiniteSets, TLC

\* ------------------------------------------------------------------ bounds
\* Number of PDUs a peer sends on one connection.
MaxSend == 2
\* Length of the ROA lists and of the byte strings handed to the pure
\* functions.
MaxLen == 3
\* The refresher stops fetching once the cache serial has reached MaxSerial.
MaxSerial == 3

\* ------------------------------------------------------- program constants
SerialNotify == 0
SerialQuery == 1
ResetQuery == 2
CacheResponse == 3
Ipv4Prefix == 4
Ipv6Prefix == 6
EndOfData == 7
CacheReset == 8
RouterKey == 9
ErrorReport == 10

CorruptData == 0
InternalError == 1
InvalidRequest == 3
UnsupportedVersion == 4
UnsupportedPDU == 5
UnexpectedVersion == 8

minPDULength == 8
maxPDULength == 65535
serialNotifyLength == 12
serialQueryLength == 12
resetQueryLength == 8
cacheResponseLength == 8
ipv4Length == 20
ipv6Length == 32
EndOfDataLength == 24
cacheResetLength == 8

Withdraw == 0
Announce == 1

DefaultRefreshInterval == 3600
DefaultRetryInterval == 600
DefaultExpireInterval == 7200

\* Version byte sendAndCloseError puts in every Error Report.
ErrorReportVersion == 2

\* A variant of supportedVersions that also accepts version 3.
supportedVersions_With3 == {1, 2, 3}
supportedVersions == {1, 2}

\* Arithmetic of the serial counter (uint32). The cache serial starts at 1
\* and stays at or below MaxSerial here, so that neither serial+1 nor
\* serial-1 wraps and both are the integer results.
Inc32(x) == x + 1
Dec32(x) == x - 1

\* ------------------------------------------------------------- the inputs
\* Connections the acceptor may accept.
Conns == {"c1", "c2"}

\* Values of the cache session id (low 16 bits of the start time).
SessionIds == {4660}

\* The ROAs the validators may publish (type roa): two IPv4, one IPv6.
Roa4 == [fam |-> 4, addr |-> "10.0.0.0", bits |-> 24, maxMask |-> 24, asn |-> 65001]
Roa4b == [fam |-> 4, addr |-> "192.0.2.0", bits |-> 24, maxMask |-> 32, asn |-> 65003]
Roa6 == [fam |-> 6, addr |-> "2001:db8::", bits |-> 32, maxMask |-> 48, asn |-> 65002]

Roas == { Roa4, Roa4b, Roa6 }

\* What loadROAs may return: a validated, duplicate-free list.
RoaLists == { <<>>, <<Roa4>>, <<Roa6, Roa4b>> }

\* The validators publish the three lists in rotation: after a list, a fetch
\* returns that list again or the next one. The three changes are a diff
\* that only adds, one that adds and withdraws, and one that only withdraws.
NextList(roas) ==
    CASE roas = <<>> -> << Roa4 >>
      [] roas = << Roa4 >> -> << Roa6, Roa4b >>
      [] OTHER -> <<>>

\* Version bytes a peer may send (3 is unsupported).
PeerVersions == {1, 2, 3}
\* Serial numbers a peer may ask for: 0 and the first three serials of the
\* cache (ahead of the cache while it is below 3, behind it by two or more
\* once it is at 3).
PeerSerials == 0 .. 3

\* The PDUs a peer may send, as their header fields and first body word
\* (clienttest.BuildResetQuery, clienttest.BuildSerialQuery, and an Error
\* Report with no enclosed PDU and no text).
BuildResetQuery(v) ==
    [version |-> v, ptype |-> ResetQuery, session |-> 0, length |-> 8,
     serial |-> 0, textLen |-> 0]
BuildSerialQuery(v, sess, s) ==
    [version |-> v, ptype |-> SerialQuery, session |-> sess, length |-> 12,
     serial |-> s, textLen |-> 0]
BuildErrorReport(v, code) ==
    [version |-> v, ptype |-> ErrorReport, session |-> code, length |-> 16,
     serial |-> 0, textLen |-> 0]

\* clienttest.BuildMalformedPDU: version 0, type 99, length 4.
BuildMalformedPDU ==
    [version |-> 0, ptype |-> 99, session |-> 0, length |-> 4,
     serial |-> 0, textLen |-> 0]

\* Headers of a supported version whose length field is out of range: a
\* Reset Query that announces 4 bytes, a Serial Query that announces 65536.
BadLengthPDUs ==
    { [BuildResetQuery(1) EXCEPT !.length = 4] }
    \cup { [BuildSerialQuery(2, sess, 1) EXCEPT !.length = 65536] : sess \in SessionIds }

\* A well-framed PDU of a type the decoder does not accept: a Cache Response.
UnsupportedTypePDUs ==
    { [version |-> v, ptype |-> CacheResponse, session |-> sess, length |-> 8,
       serial |-> 0, textLen |-> 0] : v \in {1}, sess \in SessionIds }

PeerPDUs ==
    { BuildResetQuery(v) : v \in PeerVersions }
    \cup { BuildSerialQuery(v, sess, s) :
             v \in supportedVersions, sess \in SessionIds, s \in PeerSerials }
    \cup { BuildSerialQuery(v, sess, 0) :
             v \in PeerVersions \ supportedVersions, sess \in SessionIds }
    \cup { BuildErrorReport(v, InternalError) : v \in PeerVersions }
    \cup { BuildMalformedPDU }
    \cup BadLengthPDUs
    \cup UnsupportedTypePDUs

\* ------------------------------------------------------------------ state
VARIABLES
    srv,        \* Server.Start: "new", "running" or "failed"
    cache,      \* cache{roas, diffs, serial, session}
    mu,         \* cache.mu: readers holding it, writer holding it, writer waiting
    clients,    \* Server.clients: the registered connections
    refresher,  \* periodicROAUpdater: its position and locals
    pc,         \* Client.Handle: position of each connection's goroutine
    version,    \* Client.version
    inbox,      \* PDUs the peer has sent and the server has not read yet
    peerClosed, \* the peer has closed its side (the reader sees EOF)
    open,       \* the server has not closed Client.conn
    out,        \* PDUs written to Client.writer since the peer last sent a PDU
    query,      \* the PDU being answered (pdu in Handle)
    loc,        \* locals of the handler while it answers: ROAs left to send,
                \* arguments of sendEndOfDataPDU
    sent,       \* history: number of PDUs the peer has sent
    nread,      \* history: number of PDUs GetPDU has returned
    atRead,     \* history: cache serial when the PDU being answered was read
    gens,       \* history: the generations installed, indexed by serial
    stalled,    \* the connections whose peer has stopped reading, its
                \* receive window and the send buffers being full
    shutdown,   \* Server.Stop: shuttingDown, whether the listener has been
                \* closed, whether Start has returned from the accept loop,
                \* and where Stop is ("none", "waiting", "nil", "timeout")
    call        \* a call of one of the package's pure functions, taken by
                \* itself: the function, its arguments and, once it has
                \* returned, its result

vars == << srv, cache, mu, clients, refresher, pc, version, inbox, peerClosed,
           open, out, query, loc, sent, nread, atRead, gens, stalled,
           shutdown, call >>

NoCall == [fn |-> "none"]

NoPDU == [version |-> 0, ptype |-> 255, session |-> 0, length |-> 0,
          serial |-> 0, textLen |-> 0]
NoLoc == [roas |-> <<>>, del |-> <<>>, serial |-> 0, session |-> 0]

\* ------------------------------------------------------------ PDU values
NewSerialNotifyPDU(ver, session, serial) ==
    [version |-> ver, ptype |-> SerialNotify, session |-> session, serial |-> serial]
NewCacheResponsePDU(ver, session) ==
    [version |-> ver, ptype |-> CacheResponse, session |-> session]
NewPrefixPDU(ver, flags, roa) ==
    [version |-> ver, ptype |-> IF roa.fam = 4 THEN Ipv4Prefix ELSE Ipv6Prefix,
     flags |-> flags, min |-> roa.bits, max |-> roa.maxMask,
     prefix |-> roa.addr, asn |-> roa.asn]
NewEndOfDataPDU(ver, session, serial, refresh, retry, expire) ==
    [version |-> ver, ptype |-> EndOfData, session |-> session, serial |-> serial,
     refresh |-> refresh, retry |-> retry, expire |-> expire]
NewCacheResetPDU(ver) ==
    [version |-> ver, ptype |-> CacheReset]
\* Byte lengths of the messages sendAndCloseError is called with.
MsgLen == [NEGOTIATION_FAILED |-> 18, INVALID_REQUEST |-> 15, READ_ERROR |-> 10]
NewErrorReportPDU(ver, code, offendingPDU, text) ==
    [version |-> ver, ptype |-> ErrorReport, code |-> code,
     pduLen |-> MsgLen[offendingPDU], pdu |-> offendingPDU,
     textLen |-> MsgLen[text], text |-> text]

\* ------------------------------------------------------------ the decoder
\* protocol.Negotiate: peek is what Peek(1) returned, <<>> on a read error.
Negotiate(peek) ==
    IF Len(peek) = 0 THEN [ver |-> 0, err |-> TRUE]
    ELSE IF peek[1] \notin supportedVersions THEN [ver |-> 0, err |-> TRUE]
    ELSE [ver |-> peek[1], err |-> FALSE]

\* protocol.getPDUBytes: the header's length field is checked, then the
\* payload is read; the peer sends as many bytes as the header announces.
getPDUBytes(p) ==
    IF p.length < minPDULength \/ p.length > maxPDULength
    THEN [err |-> "invalid PDU length", len |-> 0]
    ELSE [err |-> "", len |-> p.length]

\* protocol.decipherPDU on a buffer of len bytes holding the fields of p.
decipherPDU(p, len) ==
    IF len < 2 THEN [err |-> "data too short", pdu |-> NoPDU]
    ELSE IF p.ptype = SerialQuery THEN
        IF len < 12 THEN [err |-> "SerialQueryPDU too short", pdu |-> NoPDU]
        ELSE [err |-> "", pdu |-> [p EXCEPT !.length = serialQueryLength]]
    ELSE IF p.ptype = ResetQuery THEN
        IF len < 8 THEN [err |-> "ResetQueryPDU too short", pdu |-> NoPDU]
        ELSE [err |-> "", pdu |-> [p EXCEPT !.length = resetQueryLength,
                                            !.session = 0, !.serial = 0]]
    ELSE IF p.ptype = ErrorReport THEN
        IF len < 12 THEN [err |-> "ErrorReportPDU too short", pdu |-> NoPDU]
        ELSE IF p.serial > len \/ 12 + p.serial + 4 > len
        THEN [err |-> "ErrorReportPDU invalid pduLen", pdu |-> NoPDU]
        ELSE IF p.textLen > len \/ 12 + p.serial + 4 + p.textLen > len
        THEN [err |-> "ErrorReportPDU invalid textLen", pdu |-> NoPDU]
        ELSE [err |-> "", pdu |-> p]
    ELSE [err |-> "unsupported PDU type", pdu |-> NoPDU]

\* protocol.GetPDU on the next PDU of the stream.
GetPDU(p) ==
    LET b == getPDUBytes(p) IN
    IF b.err # "" THEN [err |-> b.err, pdu |-> NoPDU]
    ELSE decipherPDU(p, b.len)

\* -------------------------------------------------------------- the cache
\* newCache: serial 1, no ROAs, no diff.
newCache(session) ==
    [roas |-> <<>>, diffs |-> [addRoa |-> <<>>, delRoa |-> <<>>, diff |-> FALSE],
     serial |-> 1, session |-> session]

replaceRoas(c, roas) == [c EXCEPT !.roas = roas]

\* A variant of updateDiffs that records the diff and keeps the old ROAs.
updateDiffs_KeepRoas(c, roas, addRoa, delRoa) ==
    [c EXCEPT !.diffs = [addRoa |-> addRoa, delRoa |-> delRoa,
                         diff |-> (Len(addRoa) > 0 \/ Len(delRoa) > 0)]]
\* A variant of updateDiffs that replaces the ROAs and leaves the stored diff.
updateDiffs_NoDiffs(c, roas, addRoa, delRoa) == [c EXCEPT !.roas = roas]
updateDiffs(c, roas, addRoa, delRoa) ==
    [c EXCEPT !.roas = roas,
              !.diffs = [addRoa |-> addRoa, delRoa |-> delRoa,
                         diff |-> (Len(addRoa) > 0 \/ Len(delRoa) > 0)]]

incrementSerial(c) == [c EXCEPT !.serial = Inc32(@)]

isDiffs(c) == Len(c.diffs.addRoa) > 0 \/ Len(c.diffs.delRoa) > 0

\* A variant of getDiffs that returns the two lists in each other's place.
getDiffs_Swapped(c) == [addRoa |-> c.diffs.delRoa, delRoa |-> c.diffs.addRoa]
getDiffs(c) == [addRoa |-> c.diffs.addRoa, delRoa |-> c.diffs.delRoa]

\* A variant of getRoas whose copy lacks the last ROA.
getRoas_Short(c) == [i \in 1 .. Len(c.roas) - 1 |-> c.roas[i]]
getRoas(c) == [i \in 1 .. Len(c.roas) |-> c.roas[i]]

getSerial(c) == c.serial

\* A variant of getSession that reads the serial field.
getSession_Serial(c) == c.serial
getSession(c) == c.session

Contains(seq, x) == \E i \in 1 .. Len(seq) : seq[i] = x

\* A variant of makeDiff that lists the additions last to first.
makeDiff_Reversed(new, old) ==
    LET addROA == SelectSeq(new, LAMBDA r : ~Contains(old, r))
        delROA == SelectSeq(old, LAMBDA r : ~Contains(new, r))
    IN [addRoa |-> [i \in 1 .. Len(addROA) |-> addROA[Len(addROA) + 1 - i]],
        delRoa |-> delROA,
        diff |-> (Len(addROA) > 0 \/ Len(delROA) > 0)]
\* A variant of makeDiff that reports no withdrawal.
makeDiff_NoDel(new, old) ==
    LET addROA == SelectSeq(new, LAMBDA r : ~Contains(old, r))
    IN [addRoa |-> addROA, delRoa |-> <<>>, diff |-> (Len(addROA) > 0)]
\* makeDiff: the ROAs of new that old lacks, then those of old that new lacks,
\* each in the order of its list.
makeDiff(new, old) ==
    LET addROA == SelectSeq(new, LAMBDA r : ~Contains(old, r))
        delROA == SelectSeq(old, LAMBDA r : ~Contains(new, r))
    IN [addRoa |-> addROA, delRoa |-> delROA,
        diff |-> (Len(addROA) > 0 \/ Len(delROA) > 0)]

\* ------------------------------------------------------ cache.mu (RWMutex)
\* RLock blocks while a writer holds the mutex or waits for it.
CanRLock == ~mu.writer /\ ~mu.waiting
RLock(m) == [m EXCEPT !.readers = @ + 1]
RUnlock(m) == [m EXCEPT !.readers = @ - 1]

\* ----------------------------------------------------------- construction
\* server.New: a fresh cache, no listener, no client. The routers of rs will
\* connect once the server listens; the others never do.
InitServer(rs) ==
    /\ srv = "new"
    /\ \E sid \in SessionIds : cache = newCache(sid)
    /\ mu = [readers |-> 0, writer |-> FALSE, waiting |-> FALSE]
    /\ clients = {}
    /\ refresher = [pc |-> "idle", newROAs |-> <<>>,
                    diff |-> [addRoa |-> <<>>, delRoa |-> <<>>, diff |-> FALSE],
                    toNotify |-> {}, err |-> FALSE]
    /\ pc = [c \in Conns |-> IF c \in rs THEN "none" ELSE "absent"]
    /\ version = [c \in Conns |-> 0]
    /\ inbox = [c \in Conns |-> <<>>]
    /\ peerClosed = [c \in Conns |-> FALSE]
    /\ open = [c \in Conns |-> FALSE]
    /\ out = [c \in Conns |-> <<>>]
    /\ query = [c \in Conns |-> NoPDU]
    /\ loc = [c \in Conns |-> NoLoc]
    /\ sent = [c \in Conns |-> 0]
    /\ nread = [c \in Conns |-> 0]
    /\ atRead = [c \in Conns |-> 0]
    /\ gens = <<>>
    /\ stalled = {}
    /\ shutdown = [shuttingDown |-> FALSE, closed |-> FALSE, returned |-> FALSE,
                   stop |-> "none"]

InitWith(rs) == InitServer(rs) /\ call = NoCall

\* One router.
Init == InitWith({"c1"})
\* Two routers.
InitTwo == InitWith(Conns)

sessionVars == << pc, version, inbox, peerClosed, open, out, query, loc, sent,
                  nread, atRead, stalled >>

\* One installed generation, as the history keeps it.
Generation(c) == [roas |-> c.roas, addRoa |-> c.diffs.addRoa, delRoa |-> c.diffs.delRoa]

\* ------------------------------------------------------------- the server
\* Server.Start: the initial load succeeded; the ROAs are installed under
\* the write lock, the listener is bound and the refresher started.
StartLoaded ==
    /\ srv = "new"
    /\ \E roas \in RoaLists :
         /\ cache' = replaceRoas(cache, roas)
         /\ gens' = << Generation(replaceRoas(cache, roas)) >>
    /\ srv' = "running"
    /\ UNCHANGED << mu, clients, refresher, sessionVars, shutdown, call >>

\* A variant of StartFailed that goes on to listen after the failed load.
StartFailed_Listens ==
    /\ srv = "new"
    /\ srv' = "running"
    /\ UNCHANGED << cache, mu, clients, refresher, sessionVars, gens, shutdown, call >>

\* Server.Start: the initial load failed; Start returns the error.
StartFailed ==
    /\ srv = "new"
    /\ srv' = "failed"
    /\ UNCHANGED << cache, mu, clients, refresher, sessionVars, gens, shutdown, call >>

\* Server.handleConnection up to client.Handle: the connection is wrapped
\* in a Client and registered. A range over the registry that is under way
\* may or may not produce the new entry.
Accept(c) ==
    /\ srv = "running"
    /\ ~shutdown.closed
    /\ pc[c] = "none"
    /\ clients' = clients \cup {c}
    /\ pc' = [pc EXCEPT ![c] = "negotiate"]
    /\ open' = [open EXCEPT ![c] = TRUE]
    /\ \E seen \in BOOLEAN :
         refresher' = IF refresher.pc = "notify" /\ seen
                      THEN [refresher EXCEPT !.toNotify = @ \cup {c}]
                      ELSE refresher
    /\ UNCHANGED << srv, shutdown, call, cache, mu, version, inbox, peerClosed, out, query, loc,
                    sent, nread, atRead, gens, stalled >>

\* Server.handleConnection after client.Handle returned: the deferred
\* Close, then the entry is deleted from the registry. The history of the
\* connection ends with it.
Deregister(c) ==
    /\ pc[c] = "closing"
    /\ open' = [open EXCEPT ![c] = FALSE]
    /\ clients' = clients \ {c}
    /\ pc' = [pc EXCEPT ![c] = "done"]
    /\ inbox' = [inbox EXCEPT ![c] = <<>>]
    /\ out' = [out EXCEPT ![c] = <<>>]
    /\ query' = [query EXCEPT ![c] = NoPDU]
    /\ atRead' = [atRead EXCEPT ![c] = 0]
    /\ stalled' = stalled \ {c}
    /\ UNCHANGED << srv, shutdown, call, cache, mu, refresher, version, peerClosed, loc, sent,
                    nread, gens >>

\* --------------------------------------------------------------- the peer
\* The server reads a connection in order and blocks while nothing has
\* arrived, so all it can observe of the time at which the peer acts is what
\* it finds at a read. The peer's next act is therefore taken when the
\* handler is at a read with nothing left to read.
AtRead(c) == pc[c] \in {"negotiate", "initial", "loop"} /\ inbox[c] = <<>>

\* The router sends one PDU. What the server wrote up to here was its
\* answer to the PDUs sent before; out starts again.
PeerSend(c, p) ==
    /\ AtRead(c)
    /\ ~peerClosed[c]
    /\ c \notin stalled
    /\ sent[c] < MaxSend
    /\ inbox' = [inbox EXCEPT ![c] = Append(@, p)]
    /\ sent' = [sent EXCEPT ![c] = @ + 1]
    /\ out' = [out EXCEPT ![c] = <<>>]
    /\ query' = [query EXCEPT ![c] = NoPDU]
    /\ atRead' = [atRead EXCEPT ![c] = 0]
    /\ UNCHANGED << srv, shutdown, call, cache, mu, clients, refresher, pc, version, peerClosed,
                    open, loc, nread, gens, stalled >>

\* The router closes the connection.
PeerClose(c) ==
    /\ AtRead(c)
    /\ ~peerClosed[c]
    /\ c \notin stalled
    /\ peerClosed' = [peerClosed EXCEPT ![c] = TRUE]
    /\ UNCHANGED << srv, shutdown, call, cache, mu, clients, refresher, pc, version, inbox,
                    open, out, query, loc, sent, nread, atRead, gens, stalled >>

\* The router stops reading from the connection while it stays connected:
\* once its receive window and the server's send buffer are full, which is
\* the moment taken here, a Write or Flush on the connection does not
\* return (no write deadline is set on Client.conn). Such a router sends
\* nothing more and does not close.
PeerStall(c) ==
    /\ pc[c] \notin {"absent", "none", "closing", "done"}
    /\ open[c]
    /\ ~peerClosed[c]
    /\ c \notin stalled
    /\ stalled' = stalled \cup {c}
    /\ UNCHANGED << srv, shutdown, call, cache, mu, clients, refresher, pc, version, inbox,
                    peerClosed, open, out, query, loc, sent, nread, atRead, gens >>

\* ------------------------------------------------------------ the session
\* Write and Flush on Client.writer return: at once with an error on a
\* connection the server has closed, and otherwise when the peer takes the
\* bytes.
CanWrite(c) == ~open[c] \/ c \notin stalled

\* A PDU written to Client.writer and flushed: it reaches the wire unless
\* the server has closed the connection. The session goroutine and the
\* refresher's notify share the writer without synchronisation; out keeps
\* the PDUs in the order in which they were handed to the writer, and the
\* bytes of two writes that overlap in time are not followed further.
Write(c, p) == IF open[c] THEN Append(out[c], p) ELSE out[c]

\* Client.sendAndCloseError: an Error Report of version 2 that carries msg
\* as enclosed PDU and as text; then the connection is closed.
sendAndCloseError(c, msg, code) ==
    /\ CanWrite(c) /\ out' = [out EXCEPT ![c] = Write(c, NewErrorReportPDU(ErrorReportVersion, code, msg, msg))]
    /\ open' = [open EXCEPT ![c] = FALSE]

\* The switch on pdu.Type() in Handle and in sendInitialResponse.
Dispatch(p) ==
    IF p.ptype = ResetQuery THEN "rq_cr"
    ELSE IF p.ptype = SerialQuery THEN "sq0"
    ELSE "unexpected"

\* Handle, step 1: protocol.Negotiate peeks at the first byte.
HandleNegotiate(c) ==
    /\ pc[c] = "negotiate"
    /\ inbox[c] # <<>> \/ peerClosed[c]
    /\ LET peek == IF inbox[c] # <<>> THEN << Head(inbox[c]).version >> ELSE <<>>
           r == Negotiate(peek)
       IN IF r.err
          THEN /\ sendAndCloseError(c, "NEGOTIATION_FAILED", UnsupportedVersion)
               /\ pc' = [pc EXCEPT ![c] = "closing"]
               /\ UNCHANGED version
          ELSE /\ version' = [version EXCEPT ![c] = r.ver]
               /\ pc' = [pc EXCEPT ![c] = "initial"]
               /\ UNCHANGED << out, open >>
    /\ UNCHANGED << srv, shutdown, call, cache, mu, clients, refresher, inbox, peerClosed, query,
                    loc, sent, nread, atRead, gens, stalled >>

\* GetPDU returned pdu p: the handler starts to answer it.
StartAnswer(c, p) ==
    /\ query' = [query EXCEPT ![c] = p]
    /\ nread' = [nread EXCEPT ![c] = @ + 1]
    /\ atRead' = [atRead EXCEPT ![c] = getSerial(cache)]
    /\ loc' = [loc EXCEPT ![c] = NoLoc]

\* Handle, step 2: the first PDU is read and sendInitialResponse answers it.
\* A read or decode error is reported as Invalid Request; a PDU that is no
\* query closes the connection, and Handle goes on to its read loop.
HandleInitial(c) ==
    /\ pc[c] = "initial"
    /\ inbox[c] # <<>> \/ peerClosed[c]
    /\ IF inbox[c] = <<>> \/ GetPDU(Head(inbox[c])).err # ""
       THEN /\ sendAndCloseError(c, "INVALID_REQUEST", InvalidRequest)
            /\ pc' = [pc EXCEPT ![c] = "closing"]
            /\ inbox' = [inbox EXCEPT ![c] = IF @ = <<>> THEN @ ELSE Tail(@)]
            /\ UNCHANGED << query, nread, atRead, loc >>
       ELSE LET p == GetPDU(Head(inbox[c])).pdu IN
            /\ inbox' = [inbox EXCEPT ![c] = Tail(@)]
            /\ StartAnswer(c, p)
            /\ UNCHANGED out
            /\ IF Dispatch(p) = "unexpected"
               THEN /\ open' = [open EXCEPT ![c] = FALSE]
                    /\ pc' = [pc EXCEPT ![c] = "loop"]
               ELSE /\ pc' = [pc EXCEPT ![c] = Dispatch(p)]
                    /\ UNCHANGED open
    /\ UNCHANGED << srv, shutdown, call, cache, mu, clients, refresher, version, peerClosed,
                    sent, gens, stalled >>

\* Handle, step 3: one turn of the read loop. A read from a connection the
\* server has closed, and EOF, end the session silently; any other error is
\* reported as Corrupt Data; a PDU that is no query closes the connection.
HandleLoop(c) ==
    /\ pc[c] = "loop"
    /\ ~open[c] \/ inbox[c] # <<>> \/ peerClosed[c]
    /\ IF ~open[c] \/ inbox[c] = <<>>
       THEN /\ pc' = [pc EXCEPT ![c] = "closing"]
            /\ UNCHANGED << inbox, out, open, query, nread, atRead, loc >>
       ELSE IF GetPDU(Head(inbox[c])).err # ""
       THEN /\ sendAndCloseError(c, "READ_ERROR", CorruptData)
            /\ pc' = [pc EXCEPT ![c] = "closing"]
            /\ inbox' = [inbox EXCEPT ![c] = Tail(@)]
            /\ UNCHANGED << query, nread, atRead, loc >>
       ELSE LET p == GetPDU(Head(inbox[c])).pdu IN
            /\ inbox' = [inbox EXCEPT ![c] = Tail(@)]
            /\ StartAnswer(c, p)
            /\ UNCHANGED out
            /\ IF Dispatch(p) = "unexpected"
               THEN /\ open' = [open EXCEPT ![c] = FALSE]
                    /\ pc' = [pc EXCEPT ![c] = "closing"]
               ELSE /\ pc' = [pc EXCEPT ![c] = Dispatch(p)]
                    /\ UNCHANGED open
    /\ UNCHANGED << srv, shutdown, call, cache, mu, clients, refresher, version, peerClosed,
                    sent, gens, stalled >>

\* What a handler step leaves alone besides pc, out, mu and loc.
handlerFrame == << srv, shutdown, call, cache, clients, refresher, version, inbox, peerClosed,
                   open, query, sent, nread, atRead, gens, stalled >>

\* Client.sendCacheResponse is called from three places; each has its own
\* position while it waits for the read lock and while it holds it.
CrHeld == [rq_cr |-> "rq_cr_w", eq_cr |-> "eq_cr_w", pv_cr |-> "pv_cr_w"]
CrReturn == [rq_cr_w |-> "rq_all", eq_cr_w |-> "sq4", pv_cr_w |-> "df"]

\* sendCacheResponse: c.rlock().
SendCacheResponseLock(c) ==
    /\ pc[c] \in DOMAIN CrHeld
    /\ CanRLock
    /\ mu' = RLock(mu)
    /\ pc' = [pc EXCEPT ![c] = CrHeld[pc[c]]]
    /\ UNCHANGED << handlerFrame, out, loc >>

\* sendCacheResponse: the PDU is written and flushed, then the deferred
\* c.runlock().
SendCacheResponseWrite(c) ==
    /\ pc[c] \in DOMAIN CrReturn
    /\ CanWrite(c) /\ out' = [out EXCEPT ![c] = Write(c, NewCacheResponsePDU(version[c], getSession(cache)))]
    /\ mu' = RUnlock(mu)
    /\ pc' = [pc EXCEPT ![c] = CrReturn[pc[c]]]
    /\ UNCHANGED << handlerFrame, loc >>

\* Client.sendCacheReset: one Cache Reset PDU, written without the lock.
sendCacheReset(c) ==
    CanWrite(c) /\ out' = [out EXCEPT ![c] = Write(c, NewCacheResetPDU(version[c]))]

\* Client.sendAllROAS: c.rlock() at its entry.
SendAllLock(c) ==
    /\ pc[c] = "rq_all"
    /\ CanRLock
    /\ mu' = RLock(mu)
    /\ pc' = [pc EXCEPT ![c] = "rq_get"]
    /\ UNCHANGED << handlerFrame, out, loc >>

\* sendAllROAS: cache.getRoas takes the read lock again, copies the ROAs and
\* releases it.
SendAllGetRoas(c) ==
    /\ pc[c] = "rq_get"
    /\ CanRLock
    /\ loc' = [loc EXCEPT ![c].roas = getRoas(cache)]
    /\ pc' = [pc EXCEPT ![c] = "rq_pfx"]
    /\ UNCHANGED << handlerFrame, out, mu >>

\* sendAllROAS: one turn of the loop over the copy writes one prefix PDU
\* with flags Announce; after the last one the writer is flushed and the
\* arguments of sendEndOfDataPDU are evaluated.
SendAllPrefix(c) ==
    /\ pc[c] = "rq_pfx"
    /\ IF loc[c].roas # <<>>
       THEN /\ CanWrite(c) /\ out' = [out EXCEPT ![c] = Write(c, NewPrefixPDU(version[c], Announce, Head(loc[c].roas)))]
            /\ loc' = [loc EXCEPT ![c].roas = Tail(@)]
            /\ UNCHANGED pc
       ELSE /\ loc' = [loc EXCEPT ![c].session = getSession(cache),
                                  ![c].serial = getSerial(cache)]
            /\ pc' = [pc EXCEPT ![c] = "rq_eod"]
            /\ UNCHANGED out
    /\ UNCHANGED << handlerFrame, mu >>

\* The End of Data PDU sendEndOfDataPDU builds from its arguments.
EndOfDataOf(c) ==
    NewEndOfDataPDU(version[c], loc[c].session, loc[c].serial,
                    DefaultRefreshInterval, DefaultRetryInterval, DefaultExpireInterval)

\* sendAllROAS calls sendEndOfDataPDU, which takes the read lock again.
SendAllEodLock(c) ==
    /\ pc[c] = "rq_eod"
    /\ CanRLock
    /\ mu' = RLock(mu)
    /\ pc' = [pc EXCEPT ![c] = "rq_eod_w"]
    /\ UNCHANGED << handlerFrame, out, loc >>

\* sendEndOfDataPDU writes and flushes End of Data and releases its read
\* lock; sendAllROAS returns and its deferred c.runlock() runs.
SendAllEodWrite(c) ==
    /\ pc[c] = "rq_eod_w"
    /\ CanWrite(c) /\ out' = [out EXCEPT ![c] = Write(c, EndOfDataOf(c))]
    /\ mu' = RUnlock(RUnlock(mu))
    /\ pc' = [pc EXCEPT ![c] = "loop"]
    /\ loc' = [loc EXCEPT ![c] = NoLoc]
    /\ UNCHANGED handlerFrame

\* The conditions of Client.handleSerialQuery, on the requested serial s
\* and the cache serial S read at that place.
\* Variants: a zero test that never holds, an equality test that never holds.
IsZeroSerial_Never(s) == FALSE
IsCurrent_Never(s, S) == FALSE
IsZeroSerial(s) == s = 0
NotCurrent(s, S) == s # S
NotPrevious(s, S) == s # Dec32(S)
IsCurrent(s, S) == s = S
IsPrevious(s, S) == s = Dec32(S)

\* A variant of SerialQueryZero that also answers a query whose session id
\* is not the cache's with a Cache Reset.
SerialQueryZero_CheckSession(c) ==
    /\ pc[c] = "sq0"
    /\ IF IsZeroSerial(query[c].serial) \/ query[c].session # getSession(cache)
       THEN sendCacheReset(c) /\ pc' = [pc EXCEPT ![c] = "loop"]
       ELSE pc' = [pc EXCEPT ![c] = "sq1"] /\ UNCHANGED out
    /\ UNCHANGED << handlerFrame, mu, loc >>

\* handleSerialQuery: serial 0 is answered with a Cache Reset.
SerialQueryZero(c) ==
    /\ pc[c] = "sq0"
    /\ IF IsZeroSerial(query[c].serial)
       THEN sendCacheReset(c) /\ pc' = [pc EXCEPT ![c] = "loop"]
       ELSE pc' = [pc EXCEPT ![c] = "sq1"] /\ UNCHANGED out
    /\ UNCHANGED << handlerFrame, mu, loc >>

\* handleSerialQuery: pdu.Serial() != c.getSerial(), the first operand of
\* the range check; the serial is read without the lock.
SerialQueryNotCurrent(c) ==
    /\ pc[c] = "sq1"
    /\ pc' = [pc EXCEPT ![c] = IF NotCurrent(query[c].serial, getSerial(cache))
                               THEN "sq2" ELSE "sq3"]
    /\ UNCHANGED << handlerFrame, mu, loc, out >>

\* handleSerialQuery: pdu.Serial() != c.getSerial()-1, the second operand,
\* on a second read of the serial; if it holds too, Cache Reset.
SerialQueryNotPrevious(c) ==
    /\ pc[c] = "sq2"
    /\ IF NotPrevious(query[c].serial, getSerial(cache))
       THEN sendCacheReset(c) /\ pc' = [pc EXCEPT ![c] = "loop"]
       ELSE pc' = [pc EXCEPT ![c] = "sq3"] /\ UNCHANGED out
    /\ UNCHANGED << handlerFrame, mu, loc >>

\* handleSerialQuery: if the serial read now equals the requested one, a
\* Cache Response is sent.
SerialQueryCurrent(c) ==
    /\ pc[c] = "sq3"
    /\ pc' = [pc EXCEPT ![c] = IF IsCurrent(query[c].serial, getSerial(cache))
                               THEN "eq_cr" ELSE "sq4"]
    /\ UNCHANGED << handlerFrame, mu, loc, out >>

\* handleSerialQuery: if the serial read now is the requested one plus one
\* and the cache holds diffs, a Cache Response and the diffs are sent.
SerialQueryPrevious(c) ==
    /\ pc[c] = "sq4"
    /\ pc' = [pc EXCEPT ![c] = IF IsPrevious(query[c].serial, getSerial(cache)) /\ isDiffs(cache)
                               THEN "pv_cr" ELSE "sq5"]
    /\ UNCHANGED << handlerFrame, mu, loc, out >>

\* Client.sendDiffs: c.rlock() at its entry.
SendDiffsLock(c) ==
    /\ pc[c] = "df"
    /\ CanRLock
    /\ mu' = RLock(mu)
    /\ pc' = [pc EXCEPT ![c] = "df_get"]
    /\ UNCHANGED << handlerFrame, out, loc >>

\* sendDiffs: cache.getDiffs takes the read lock again, returns the two
\* lists and releases it.
SendDiffsGetDiffs(c) ==
    /\ pc[c] = "df_get"
    /\ CanRLock
    /\ loc' = [loc EXCEPT ![c].roas = getDiffs(cache).addRoa,
                          ![c].del = getDiffs(cache).delRoa]
    /\ pc' = [pc EXCEPT ![c] = "df_add"]
    /\ UNCHANGED << handlerFrame, out, mu >>

\* sendDiffs: one turn of the loop over add writes one prefix PDU with
\* flags Announce; after the last one the writer is flushed.
SendDiffsAdd(c) ==
    /\ pc[c] = "df_add"
    /\ IF loc[c].roas # <<>>
       THEN /\ CanWrite(c) /\ out' = [out EXCEPT ![c] = Write(c, NewPrefixPDU(version[c], Announce, Head(loc[c].roas)))]
            /\ loc' = [loc EXCEPT ![c].roas = Tail(@)]
            /\ UNCHANGED << pc, mu >>
       ELSE /\ pc' = [pc EXCEPT ![c] = "df_del"]
            /\ UNCHANGED << out, loc, mu >>
    /\ UNCHANGED handlerFrame

\* sendDiffs: one turn of the loop over del writes one prefix PDU with
\* flags Withdraw; after the last one the writer is flushed, sendDiffs
\* returns and its deferred c.runlock() runs.
SendDiffsDel(c) ==
    /\ pc[c] = "df_del"
    /\ IF loc[c].del # <<>>
       THEN /\ CanWrite(c) /\ out' = [out EXCEPT ![c] = Write(c, NewPrefixPDU(version[c], Withdraw, Head(loc[c].del)))]
            /\ loc' = [loc EXCEPT ![c].del = Tail(@)]
            /\ UNCHANGED << pc, mu >>
       ELSE /\ mu' = RUnlock(mu)
            /\ pc' = [pc EXCEPT ![c] = "sq5"]
            /\ UNCHANGED << out, loc >>
    /\ UNCHANGED handlerFrame

\* handleSerialQuery: the arguments c.getSession() and c.getSerial() of
\* sendEndOfDataPDU are evaluated, without the lock.
SerialQueryEodArgs(c) ==
    /\ pc[c] = "sq5"
    /\ loc' = [loc EXCEPT ![c].session = getSession(cache),
                          ![c].serial = getSerial(cache)]
    /\ pc' = [pc EXCEPT ![c] = "sq_eod"]
    /\ UNCHANGED << handlerFrame, out, mu >>

\* sendEndOfDataPDU: c.rlock().
SerialQueryEodLock(c) ==
    /\ pc[c] = "sq_eod"
    /\ CanRLock
    /\ mu' = RLock(mu)
    /\ pc' = [pc EXCEPT ![c] = "sq_eod_w"]
    /\ UNCHANGED << handlerFrame, out, loc >>

\* sendEndOfDataPDU: End of Data is written and flushed, then the deferred
\* c.runlock(); handleSerialQuery returns to the read loop.
SerialQueryEodWrite(c) ==
    /\ pc[c] = "sq_eod_w"
    /\ CanWrite(c) /\ out' = [out EXCEPT ![c] = Write(c, EndOfDataOf(c))]
    /\ mu' = RUnlock(mu)
    /\ pc' = [pc EXCEPT ![c] = "loop"]
    /\ loc' = [loc EXCEPT ![c] = NoLoc]
    /\ UNCHANGED handlerFrame

\* ---------------------------------------------------------- the refresher
\* A variant of Lock that does not wait for the readers.
CanLock_IgnoringReaders == ~mu.writer
\* Lock waits until no reader holds the mutex.
CanLock == mu.readers = 0 /\ ~mu.writer

\* periodicROAUpdater, a tick whose loadROAs succeeded (with the list
\* installed last or with the next one published): the diff against the
\* current ROAs is computed under the read lock, which is released again.
\* Without differences the tick ends here.
RefreshTick ==
    /\ srv = "running"
    /\ refresher.pc = "idle"
    /\ getSerial(cache) < MaxSerial
    /\ ~mu.writer
    /\ \E newROAs \in {cache.roas, NextList(cache.roas)} :
         LET diff == makeDiff(newROAs, cache.roas) IN
         refresher' = IF diff.diff
                      THEN [refresher EXCEPT !.pc = "lock", !.newROAs = newROAs,
                                             !.diff = diff, !.err = FALSE]
                      ELSE [refresher EXCEPT !.err = FALSE]
    /\ UNCHANGED << srv, shutdown, call, cache, mu, clients, sessionVars, gens >>

\* A variant of RefreshFailed that drops the ROAs when the fetch fails.
RefreshFailed_DropsRoas ==
    /\ srv = "running"
    /\ refresher.pc = "idle"
    /\ getSerial(cache) < MaxSerial
    /\ refresher' = [refresher EXCEPT !.err = TRUE]
    /\ cache' = replaceRoas(cache, <<>>)
    /\ UNCHANGED << srv, shutdown, call, mu, clients, sessionVars, gens >>

\* periodicROAUpdater, a tick whose loadROAs failed: err is set, the error
\* is logged and the loop continues with the next tick.
RefreshFailed ==
    /\ srv = "running"
    /\ refresher.pc = "idle"
    /\ getSerial(cache) < MaxSerial
    /\ refresher' = [refresher EXCEPT !.err = TRUE]
    /\ UNCHANGED << srv, shutdown, call, cache, mu, clients, sessionVars, gens >>

\* s.lock() is called: from now on new readers wait.
RefreshLock ==
    /\ refresher.pc = "lock"
    /\ mu' = [mu EXCEPT !.waiting = TRUE]
    /\ refresher' = [refresher EXCEPT !.pc = "lockwait"]
    /\ UNCHANGED << srv, shutdown, call, cache, clients, sessionVars, gens >>

\* s.lock() returns.
RefreshAcquire ==
    /\ refresher.pc = "lockwait"
    /\ CanLock
    /\ mu' = [mu EXCEPT !.writer = TRUE, !.waiting = FALSE]
    /\ refresher' = [refresher EXCEPT !.pc = "locked"]
    /\ UNCHANGED << srv, shutdown, call, cache, clients, sessionVars, gens >>

\* s.cache.updateDiffs(newROAs, diff.addRoa, diff.delRoa).
RefreshUpdateDiffs ==
    /\ refresher.pc = "locked"
    /\ cache' = updateDiffs(cache, refresher.newROAs, refresher.diff.addRoa,
                            refresher.diff.delRoa)
    /\ refresher' = [refresher EXCEPT !.pc = "updated"]
    /\ UNCHANGED << srv, shutdown, call, mu, clients, sessionVars, gens >>

\* s.cache.incrementSerial(); s.unlock(); the range over s.clients begins.
RefreshIncrement ==
    /\ refresher.pc = "updated"
    /\ cache' = incrementSerial(cache)
    /\ mu' = [mu EXCEPT !.writer = FALSE]
    /\ gens' = Append(gens, Generation(cache'))
    /\ refresher' = [refresher EXCEPT !.pc = "notify", !.toNotify = clients]
    /\ UNCHANGED << srv, shutdown, call, clients, sessionVars >>

\* A variant of notify that writes the Serial Notify twice.
notify_Twice(c) ==
    CanWrite(c) /\ out' = [out EXCEPT ![c] =
        IF open[c]
        THEN out[c] \o << NewSerialNotifyPDU(version[c], getSession(cache), getSerial(cache)),
                          NewSerialNotifyPDU(version[c], getSession(cache), getSerial(cache)) >>
        ELSE out[c]]
\* Client.notify, called by the refresher: a Serial Notify with the
\* client's version and the cache's session and serial is written to the
\* client's writer and flushed. No lock is held.
notify(c) ==
    CanWrite(c) /\ out' = [out EXCEPT ![c] = Write(c, NewSerialNotifyPDU(version[c], getSession(cache), getSerial(cache)))]

\* A variant of RefreshNotify in which a failed write ends the range.
RefreshNotify_AbortOnError(c) ==
    /\ refresher.pc = "notify"
    /\ c \in refresher.toNotify
    /\ IF c \in clients THEN notify(c) ELSE UNCHANGED out
    /\ refresher' = IF c \in clients /\ ~open[c]
                    THEN [refresher EXCEPT !.toNotify = {}]
                    ELSE [refresher EXCEPT !.toNotify = @ \ {c}]
    /\ UNCHANGED << srv, shutdown, call, cache, mu, clients, pc, version, inbox, peerClosed,
                    open, query, loc, sent, nread, atRead, gens, stalled >>

\* One turn of the range over s.clients; an entry deleted before its turn
\* is not produced.
RefreshNotify(c) ==
    /\ refresher.pc = "notify"
    /\ c \in refresher.toNotify
    /\ IF c \in clients THEN notify(c) ELSE UNCHANGED out
    /\ refresher' = [refresher EXCEPT !.toNotify = @ \ {c}]
    /\ UNCHANGED << srv, shutdown, call, cache, mu, clients, pc, version, inbox, peerClosed,
                    open, query, loc, sent, nread, atRead, gens, stalled >>

\* The range is over: the refresher waits for the next tick.
RefreshNotifyDone ==
    /\ refresher.pc = "notify"
    /\ refresher.toNotify = {}
    /\ refresher' = [refresher EXCEPT !.pc = "idle"]
    /\ UNCHANGED << srv, shutdown, call, cache, mu, clients, sessionVars, gens >>

\* ------------------------------------------------------- the specification
Handler(c) ==
    \/ HandleNegotiate(c)
    \/ HandleInitial(c)
    \/ HandleLoop(c)
    \/ SendCacheResponseLock(c)
    \/ SendCacheResponseWrite(c)
    \/ SendAllLock(c)
    \/ SendAllGetRoas(c)
    \/ SendAllPrefix(c)
    \/ SendAllEodLock(c)
    \/ SendAllEodWrite(c)
    \/ SerialQueryZero(c)
    \/ SerialQueryNotCurrent(c)
    \/ SerialQueryNotPrevious(c)
    \/ SerialQueryCurrent(c)
    \/ SerialQueryPrevious(c)
    \/ SendDiffsLock(c)
    \/ SendDiffsGetDiffs(c)
    \/ SendDiffsAdd(c)
    \/ SendDiffsDel(c)
    \/ SerialQueryEodArgs(c)
    \/ SerialQueryEodLock(c)
    \/ SerialQueryEodWrite(c)

Refresher ==
    \/ RefreshTick
    \/ RefreshFailed
    \/ RefreshLock
    \/ RefreshAcquire
    \/ RefreshUpdateDiffs
    \/ RefreshIncrement
    \/ RefreshNotifyDone
    \/ \E c \in Conns : RefreshNotify(c)

Next ==
    \/ StartLoaded
    \/ StartFailed
    \/ Refresher
    \/ \E c \in Conns : Accept(c) \/ Deregister(c) \/ Handler(c)
    \/ \E c \in Conns : PeerClose(c)
    \/ \E c \in Conns, p \in PeerPDUs : PeerSend(c, p)

Spec == Init /\ [][Next]_vars

\* Two routers: one sends Reset Queries of version 1, the other connects and
\* sends nothing; either may close or stop reading at any time. The steps
\* of a handler that answer a Serial Query cannot occur.
Querier == "c1"

HandlerReset(c) ==
    \/ HandleNegotiate(c)
    \/ HandleInitial(c)
    \/ HandleLoop(c)
    \/ SendCacheResponseLock(c)
    \/ SendCacheResponseWrite(c)
    \/ SendAllLock(c)
    \/ SendAllGetRoas(c)
    \/ SendAllPrefix(c)
    \/ SendAllEodLock(c)
    \/ SendAllEodWrite(c)

NextTwo ==
    \/ StartLoaded
    \/ StartFailed
    \/ Refresher
    \/ \E c \in Conns : Accept(c) \/ Deregister(c) \/ HandlerReset(c)
    \/ \E c \in Conns : PeerClose(c) \/ PeerStall(c)
    \/ PeerSend(Querier, BuildResetQuery(1))

SpecTwo == InitTwo /\ [][NextTwo]_vars

\* One router that sends Serial Queries of version 1 only, with the session
\* id of the cache or with another value in the session-id field; it may
\* close at any time. The steps of a handler that answer a Reset Query cannot occur.
QuerySessionIds == SessionIds \cup {4661}
QuerySerials == 0 .. 3
SessQueries ==
    { BuildSerialQuery(1, sess, s) : sess \in QuerySessionIds, s \in QuerySerials }

HandlerSerial(c) ==
    \/ HandleNegotiate(c)
    \/ HandleInitial(c)
    \/ HandleLoop(c)
    \/ SendCacheResponseLock(c)
    \/ SendCacheResponseWrite(c)
    \/ SerialQueryZero(c)
    \/ SerialQueryNotCurrent(c)
    \/ SerialQueryNotPrevious(c)
    \/ SerialQueryCurrent(c)
    \/ SerialQueryPrevious(c)
    \/ SendDiffsLock(c)
    \/ SendDiffsGetDiffs(c)
    \/ SendDiffsAdd(c)
    \/ SendDiffsDel(c)
    \/ SerialQueryEodArgs(c)
    \/ SerialQueryEodLock(c)
    \/ SerialQueryEodWrite(c)

NextSess ==
    \/ StartLoaded
    \/ StartFailed
    \/ Refresher
    \/ \E c \in Conns : Accept(c) \/ Deregister(c) \/ HandlerSerial(c)
    \/ \E c \in Conns : PeerClose(c)
    \/ \E c \in Conns, p \in SessQueries : PeerSend(c, p)

SpecSess == Init /\ [][NextSess]_vars

\* ----------------------------------------------------------------- Stop
\* The handleConnection goroutines counted by Server.wg.
Active == { c \in Conns : pc[c] \notin {"absent", "none", "done"} }

\* Server.Stop up to its select: shuttingDown is set, the listener is closed
\* if Start has bound one, and the wait for wg begins.
Stop ==
    /\ srv \in {"new", "running"}
    /\ shutdown.stop = "none"
    /\ shutdown' = [shutdown EXCEPT !.shuttingDown = TRUE,
                                    !.closed = (srv = "running"),
                                    !.stop = "waiting"]
    /\ UNCHANGED << srv, call, cache, mu, clients, refresher, sessionVars, gens >>

\* Server.Start: Accept fails on the closed listener, shuttingDown is set,
\* Start returns nil.
StartReturn ==
    /\ srv = "running"
    /\ shutdown.closed
    /\ shutdown.shuttingDown
    /\ ~shutdown.returned
    /\ shutdown' = [shutdown EXCEPT !.returned = TRUE]
    /\ UNCHANGED << srv, call, cache, mu, clients, refresher, sessionVars, gens >>

\* Server.Stop: wg.Wait has returned, Stop returns nil.
StopDone ==
    /\ shutdown.stop = "waiting"
    /\ Active = {}
    /\ shutdown' = [shutdown EXCEPT !.stop = "nil"]
    /\ UNCHANGED << srv, call, cache, mu, clients, refresher, sessionVars, gens >>

\* Server.Stop: the timeout has passed first, Stop returns the error.
StopTimeout ==
    /\ shutdown.stop = "waiting"
    /\ shutdown' = [shutdown EXCEPT !.stop = "timeout"]
    /\ UNCHANGED << srv, call, cache, mu, clients, refresher, sessionVars, gens >>

\* One router that sends Reset Queries, and a shutdown at any time.
NextStop ==
    \/ NextTwo
    \/ Stop
    \/ StartReturn
    \/ StopDone
    \/ StopTimeout

SpecStop == Init /\ [][NextStop]_vars

\* ------------------------------------------------------ the pure functions
\* All lists of at most n elements of S.
SeqsUpTo(S, n) == UNION { [1 .. k -> S] : k \in 0 .. n }

\* Calls of makeDiff(new, old) on lists of the three ROAs, with and without
\* repetitions.
DiffCalls ==
    { [fn |-> "makeDiff", new |-> n, old |-> o, done |-> FALSE] :
        n \in SeqsUpTo(Roas, MaxLen), o \in SeqsUpTo(Roas, MaxLen) }

\* roa.isValid. MaxMask is a uint8, and the prefix length is converted to
\* one for the comparison.
isValid_Strict(roa) ==
    IF roa.maxMask = 0 THEN FALSE
    ELSE IF roa.maxMask < roa.bits % 256 THEN FALSE
    ELSE IF roa.fam = 4 /\ roa.maxMask >= 32 THEN FALSE
    ELSE IF roa.maxMask > 128 THEN FALSE
    ELSE TRUE
isValid(roa) ==
    IF roa.maxMask = 0 THEN FALSE
    ELSE IF roa.maxMask < roa.bits % 256 THEN FALSE
    ELSE IF roa.fam = 4 /\ roa.maxMask > 32 THEN FALSE
    ELSE IF roa.maxMask > 128 THEN FALSE
    ELSE TRUE

\* The loop of GetSetOfValidatedROAs: m holds the ROAs seen, u the result.
RECURSIVE validatedLoop(_, _, _)
validatedLoop(roas, m, u) ==
    IF roas = <<>> THEN u
    ELSE LET roa == Head(roas) IN
         IF roa \in m THEN validatedLoop(Tail(roas), m, u)
         ELSE validatedLoop(Tail(roas), m \cup {roa},
                            IF isValid(roa) THEN Append(u, roa) ELSE u)

\* A variant of GetSetOfValidatedROAs that keeps every valid entry.
GetSetOfValidatedROAs_NoDedup(roas) == SelectSeq(roas, isValid)
GetSetOfValidatedROAs(roas) == validatedLoop(roas, {}, <<>>)

\* Two ROAs that are not valid: a maximum length of 33 on an IPv4 prefix,
\* and a maximum length of 0.
RoaOver == [fam |-> 4, addr |-> "10.0.0.0", bits |-> 24, maxMask |-> 33, asn |-> 65001]
RoaZero == [fam |-> 6, addr |-> "::", bits |-> 0, maxMask |-> 0, asn |-> 65002]
RawRoas == { Roa4, Roa4b, RoaOver, RoaZero }

\* Calls of GetSetOfValidatedROAs on lists of valid and invalid ROAs.
ValidatedCalls ==
    { [fn |-> "GetSetOfValidatedROAs", roas |-> r, done |-> FALSE] :
        r \in SeqsUpTo(RawRoas, MaxLen) }

\* Calls of isValid: prefix lengths of each family against maximum lengths
\* at and around the limits.
PrefixBits == [f \in {4, 6} |-> IF f = 4 THEN {0, 8, 24, 32} ELSE {0, 32, 48, 128}]
MaxMasks == {0, 1, 8, 24, 25, 32, 33, 48, 128, 129, 255}
IsValidCalls ==
    { [fn |-> "isValid", done |-> FALSE,
       roa |-> [fam |-> f, addr |-> "p", bits |-> b, maxMask |-> m, asn |-> 65001]] :
        f \in {4, 6}, b \in PrefixBits[4] \cup PrefixBits[6], m \in MaxMasks }
    \ { c \in [fn : {"isValid"}, done : {FALSE},
               roa : [fam : {4, 6}, addr : {"p"}, bits : PrefixBits[4] \cup PrefixBits[6],
                      maxMask : MaxMasks, asn : {65001}]] :
          c.roa.bits \notin PrefixBits[c.roa.fam] }

\* ---------------------------------------------------- PDUs as byte strings
\* A byte string is a sequence of numbers in 0 .. 255; data[lo:hi] of the
\* source is SubSeq(data, lo + 1, hi).

\* binary.BigEndian.PutUint16 and PutUint32.
PutUint16(v) == << v \div 256, v % 256 >>
PutUint32(v) == << v \div 16777216, (v \div 65536) % 256, (v \div 256) % 256, v % 256 >>

\* binary.BigEndian.Uint16 and Uint32 on a slice of 2 and of 4 bytes.
Uint16(b) == b[1] * 256 + b[2]
Uint32(b) == ((b[1] * 256 + b[2]) * 256 + b[3]) * 256 + b[4]

\* The bounds test of a slice expression data[lo:hi].
InBounds(data, lo, hi) == 0 <= lo /\ lo <= hi /\ hi <= Len(data)

\* protocol.NewSerialQueryPDU, NewResetQueryPDU and NewErrorReportPDU, the
\* last with the enclosed PDU and the text as byte strings.
NewSerialQueryPDU(ver, session, serial) ==
    [version |-> ver, ptype |-> SerialQuery, session |-> session,
     length |-> serialQueryLength, serial |-> serial]
NewResetQueryPDU(ver) ==
    [version |-> ver, ptype |-> ResetQuery, zero |-> 0, length |-> resetQueryLength]
NewErrorReportBytes(ver, code, offendingPDU, textBytes) ==
    [version |-> ver, ptype |-> ErrorReport, code |-> code,
     length |-> 12 + Len(offendingPDU) + 4 + Len(textBytes),
     pduLen |-> Len(offendingPDU), pdu |-> offendingPDU,
     textLen |-> Len(textBytes), text |-> textBytes]

\* The results of the decoder: a PDU, an error, or a run-time panic.
Decoded(pdu) == [kind |-> "pdu", pdu |-> pdu]
DecodeError(msg) == [kind |-> "err", err |-> msg]
Panic == [kind |-> "panic"]

\* The tests of decipherPDU on the two length fields of an Error Report.
\* (The sums are uint32 in the source; they stay far below 2^32 for the
\* byte strings considered here.)
pduLenInvalid_Partial(pduLen, n) == pduLen > n
pduLenInvalid(pduLen, n) == pduLen > n \/ 12 + pduLen + 4 > n
textLenInvalid(pduLen, textLen, n) == textLen > n \/ 12 + pduLen + 4 + textLen > n

\* protocol.decipherPDU on a byte string. Every slice expression of the
\* source is tested against the bounds of data, as the run time does.
decipherErrorReport(data) ==
    IF Len(data) < 12 THEN DecodeError("ErrorReportPDU too short")
    ELSE LET pduLen == Uint32(SubSeq(data, 9, 12)) IN
         IF pduLenInvalid(pduLen, Len(data))
         THEN DecodeError("ErrorReportPDU invalid pduLen")
         ELSE IF ~InBounds(data, 12 + pduLen, 12 + pduLen + 4) THEN Panic
         ELSE LET textLen == Uint32(SubSeq(data, 12 + pduLen + 1, 12 + pduLen + 4)) IN
              IF textLenInvalid(pduLen, textLen, Len(data))
              THEN DecodeError("ErrorReportPDU invalid textLen")
              ELSE IF \/ ~InBounds(data, 12, 12 + pduLen)
                      \/ ~InBounds(data, 12 + pduLen + 4, 12 + pduLen + 4 + textLen)
              THEN Panic
              ELSE Decoded([version |-> data[1], ptype |-> data[2],
                            code |-> Uint16(SubSeq(data, 3, 4)),
                            length |-> Uint32(SubSeq(data, 5, 8)),
                            pduLen |-> pduLen,
                            pdu |-> SubSeq(data, 12 + 1, 12 + pduLen),
                            textLen |-> textLen,
                            text |-> SubSeq(data, 12 + pduLen + 4 + 1,
                                            12 + pduLen + 4 + textLen)])
decipherBytes(data) ==
    IF Len(data) < 2 THEN DecodeError("data too short to contain PDU type")
    ELSE IF data[2] = SerialQuery THEN
        IF Len(data) < 12 THEN DecodeError("SerialQueryPDU too short")
        ELSE IF ~InBounds(data, 2, 4) \/ ~InBounds(data, 8, 12) THEN Panic
        ELSE Decoded(NewSerialQueryPDU(data[1], Uint16(SubSeq(data, 3, 4)),
                                       Uint32(SubSeq(data, 9, 12))))
    ELSE IF data[2] = ResetQuery THEN
        IF Len(data) < 8 THEN DecodeError("ResetQueryPDU too short")
        ELSE Decoded(NewResetQueryPDU(data[1]))
    ELSE IF data[2] = ErrorReport THEN decipherErrorReport(data)
    ELSE DecodeError("unsupported PDU type")

\* protocol.getPDUBytes on a reader that holds the bytes r and then ends.
getPDUBytesFrom(r) ==
    IF Len(r) < minPDULength THEN [err |-> "failed to read PDU header", buf |-> << >>]
    ELSE LET length == Uint32(SubSeq(r, 5, 8)) IN
         IF length < minPDULength \/ length > maxPDULength
         THEN [err |-> "invalid PDU length", buf |-> << >>]
         ELSE IF length - minPDULength > 0 /\ Len(r) < length
         THEN [err |-> "failed to read PDU payload", buf |-> << >>]
         ELSE [err |-> "", buf |-> SubSeq(r, 1, length)]

\* protocol.GetPDU on that reader.
GetPDUFrom(r) ==
    LET bytes == getPDUBytesFrom(r) IN
    IF bytes.err # "" THEN DecodeError("failed to get PDU bytes")
    ELSE LET d == decipherBytes(bytes.buf) IN
         IF d.kind = "err" THEN DecodeError("failed to unmarshal PDU") ELSE d

\* The Write methods of the three PDUs a router sends; buf is what
\* writeFull hands to a writer that takes every byte.
WriteSerialQuery_NoLength(p) ==
    [err |-> FALSE,
     buf |-> << p.version, p.ptype >> \o PutUint16(p.session)
             \o PutUint32(0) \o PutUint32(p.serial)]
WriteSerialQuery(p) ==
    [err |-> FALSE,
     buf |-> << p.version, p.ptype >> \o PutUint16(p.session)
             \o PutUint32(p.length) \o PutUint32(p.serial)]
WriteResetQuery(p) ==
    [err |-> FALSE,
     buf |-> << p.version, p.ptype, p.zero, 0 >> \o PutUint32(p.length)]
WriteErrorReport(p) ==
    IF p.pduLen > Len(p.pdu) \/ p.textLen > Len(p.text)
    THEN [err |-> TRUE, buf |-> << >>]
    ELSE [err |-> FALSE,
          buf |-> << p.version, p.ptype >> \o PutUint16(p.code)
                  \o PutUint32(12 + p.pduLen + 4 + p.textLen)
                  \o PutUint32(p.pduLen) \o SubSeq(p.pdu, 1, p.pduLen)
                  \o PutUint32(p.textLen) \o SubSeq(p.text, 1, p.textLen)]

\* The PDUs the server emits, with every field of their struct, as their
\* constructors build them. A prefix is its 4 or 16 address bytes.
SerialNotifyPDU(ver, session, serial) ==
    [version |-> ver, ptype |-> SerialNotify, session |-> session,
     length |-> serialNotifyLength, serial |-> serial]
CacheResponsePDU(ver, session) ==
    [version |-> ver, ptype |-> CacheResponse, session |-> session,
     length |-> cacheResponseLength]
Ipv4PrefixPDU(ver, flags, min, max, prefix, asn) ==
    [version |-> ver, ptype |-> Ipv4Prefix, zero1 |-> 0, length |-> ipv4Length,
     flags |-> flags, min |-> min, max |-> max, zero2 |-> 0,
     prefix |-> prefix, asn |-> asn]
Ipv6PrefixPDU(ver, flags, min, max, prefix, asn) ==
    [version |-> ver, ptype |-> Ipv6Prefix, zero1 |-> 0, length |-> ipv6Length,
     flags |-> flags, min |-> min, max |-> max, zero2 |-> 0,
     prefix |-> prefix, asn |-> asn]
EndOfDataPDU(ver, session, serial, refresh, retry, expire) ==
    [version |-> ver, ptype |-> EndOfData, session |-> session,
     length |-> EndOfDataLength, serial |-> serial,
     refresh |-> refresh, retry |-> retry, expire |-> expire]
cacheResetPDU(ver) ==
    [version |-> ver, ptype |-> CacheReset, zero |-> 0, length |-> cacheResetLength]

\* Their Write methods.
WriteSerialNotify(p) ==
    [err |-> FALSE,
     buf |-> << p.version, p.ptype >> \o PutUint16(p.session)
             \o PutUint32(p.length) \o PutUint32(p.serial)]
WriteCacheResponse(p) ==
    [err |-> FALSE,
     buf |-> << p.version, p.ptype >> \o PutUint16(p.session) \o PutUint32(p.length)]
WriteIpv4Prefix_Swapped(p) ==
    [err |-> FALSE,
     buf |-> << p.version, p.ptype >> \o PutUint16(p.zero1) \o PutUint32(p.length)
             \o << p.flags, p.max, p.min, p.zero2 >> \o p.prefix \o PutUint32(p.asn)]
WriteIpv4Prefix(p) ==
    [err |-> FALSE,
     buf |-> << p.version, p.ptype >> \o PutUint16(p.zero1) \o PutUint32(p.length)
             \o << p.flags, p.min, p.max, p.zero2 >> \o p.prefix \o PutUint32(p.asn)]
WriteIpv6Prefix(p) ==
    [err |-> FALSE,
     buf |-> << p.version, p.ptype >> \o PutUint16(p.zero1) \o PutUint32(32)
             \o << p.flags, p.min, p.max, p.zero2 >> \o p.prefix \o PutUint32(p.asn)]
WriteEndOfData(p) ==
    [err |-> FALSE,
     buf |-> << p.version, p.ptype >> \o PutUint16(p.session) \o PutUint32(p.length)
             \o PutUint32(p.serial) \o PutUint32(p.refresh)
             \o PutUint32(p.retry) \o PutUint32(p.expire)]
WriteCacheReset(p) ==
    [err |-> FALSE,
     buf |-> << p.version, p.ptype >> \o PutUint16(p.zero) \o PutUint32(p.length)]

WritePDU(p) ==
    IF p.ptype = SerialQuery THEN WriteSerialQuery(p)
    ELSE IF p.ptype = ResetQuery THEN WriteResetQuery(p)
    ELSE IF p.ptype = SerialNotify THEN WriteSerialNotify(p)
    ELSE IF p.ptype = CacheResponse THEN WriteCacheResponse(p)
    ELSE IF p.ptype = Ipv4Prefix THEN WriteIpv4Prefix(p)
    ELSE IF p.ptype = Ipv6Prefix THEN WriteIpv6Prefix(p)
    ELSE IF p.ptype = EndOfData THEN WriteEndOfData(p)
    ELSE IF p.ptype = CacheReset THEN WriteCacheReset(p)
    ELSE WriteErrorReport(p)

\* protocol.NewRouterKeyPDU and RouterKeyPDU.Write. The buffer has
\* 24 + len(skiInfo) bytes; the SKI goes to buf[8:28], the ASN to buf[28:],
\* and copy puts into buf[32:] as much of skiInfo as fits.
RouterKeyPDU(ver, session, ski, asn, skiInfo) ==
    [version |-> ver, ptype |-> RouterKey, session |-> session,
     length |-> 24 + Len(skiInfo), ski |-> ski, asn |-> asn, skiInfo |-> skiInfo]
WriteRouterKey(p) ==
    LET n == 24 + Len(p.skiInfo) IN
    IF 28 > n THEN Panic
    ELSE IF n - 28 < 4 THEN Panic
    ELSE [kind |-> "ok",
          buf |-> << p.version, p.ptype >> \o PutUint16(p.session)
                  \o PutUint32(p.length) \o p.ski \o PutUint32(p.asn)
                  \o SubSeq(p.skiInfo, 1, n - 32)]

\* The byte strings handed to decipherPDU: every string of up to MaxLen
\* bytes over a few values, and every prefix of a header followed by four
\* 32-bit words, the words being small, just off a multiple of four, or
\* far larger than any buffer (999999 and 16r7F000000; no four bytes in a
\* row read as 2^31 or more).
ShortBytes == SeqsUpTo({0, 1, 2, 10}, MaxLen)
TypeBytes == {SerialNotify, SerialQuery, ResetQuery, ErrorReport, 99}
LengthWords == {0, 1, 4, 5, 8, 999999, 2130706432}
TailWords == {0, 4, 999999}
FramedBytes ==
    { << 1, t, 0, 1 >> \o PutUint32(24) \o PutUint32(a) \o PutUint32(b)
        \o PutUint32(c) \o PutUint32(d) :
        t \in TypeBytes, a \in LengthWords, b \in LengthWords,
        c \in TailWords, d \in TailWords }
DecipherCalls ==
    { [fn |-> "decipherPDU", data |-> b, done |-> FALSE] : b \in ShortBytes }
    \cup { [fn |-> "decipherPDU", data |-> SubSeq(b, 1, k), done |-> FALSE] :
             b \in FramedBytes, k \in 0 .. 24 }

\* The PDUs written and read back: the constructors on values at the ends
\* and in the middle of each field's range.
RoundTripVersions == {0, 1, 2, 255}
RoundTripSessions == {0, 1, 100, 256, 4660, 65535}
RoundTripSerials == {0, 1, 255, 256, 12345, 65536, 2147483647}
RoundTripCodes == {0, 4, 10, 65535}
RoundTripPDUs ==
    { NewSerialQueryPDU(v, i, n) :
        v \in RoundTripVersions, i \in RoundTripSessions, n \in RoundTripSerials }
    \cup { NewResetQueryPDU(v) : v \in RoundTripVersions }
    \cup { NewErrorReportBytes(v, e, o, t) :
             v \in {1, 2}, e \in RoundTripCodes,
             o \in SeqsUpTo({0, 255}, MaxLen), t \in SeqsUpTo({65, 255}, MaxLen) }
RoundTripCalls == { [fn |-> "roundTrip", p |-> p, done |-> FALSE] : p \in RoundTripPDUs }

\* What a peer may put on the wire for GetPDU: a Serial Query or a Reset
\* Query framed with 8, 12 or 16 bytes, and an Error Report with an
\* enclosed PDU of p and a text of x bytes framed with exactly its size or
\* with four bytes less or more. The peer sends as many bytes as the header
\* announces.
Zeros(n) == [i \in 1 .. n |-> 0]
FramedQueries ==
    { << 1, t, 0, 0 >> \o PutUint32(l) \o Zeros(l - 8) :
        t \in {SerialQuery, ResetQuery}, l \in {8, 12, 16} }
FramedReports ==
    { SubSeq(<< 1, ErrorReport, 0, 0 >> \o PutUint32(16 + p + x + d)
               \o PutUint32(p) \o Zeros(p) \o PutUint32(x) \o Zeros(x) \o Zeros(4),
             1, 16 + p + x + d) :
        p \in {0, 4}, x \in {0, 4}, d \in {-4, 0, 4} }
GetPDUCalls ==
    { [fn |-> "GetPDU", r |-> r, done |-> FALSE] : r \in FramedQueries \cup FramedReports }

\* The PDUs the server writes: every emitted type on a few values of
\* each field.
WireVersions == {1, 2}
WireSessions == {0, 4660, 65535}
WireSerials == {1, 256, 2147483647}
WireAsns == {65001, 2147483647}
Prefix4 == << 192, 0, 2, 0 >>
Prefix6 == << 32, 1, 13, 184 >> \o Zeros(12)
EmittedPDUs ==
    { SerialNotifyPDU(v, i, n) : v \in WireVersions, i \in WireSessions, n \in WireSerials }
    \cup { CacheResponsePDU(v, i) : v \in WireVersions, i \in WireSessions }
    \cup { Ipv4PrefixPDU(v, f, 24, m, Prefix4, a) :
             v \in WireVersions, f \in {Withdraw, Announce}, m \in {24, 32}, a \in WireAsns }
    \cup { Ipv6PrefixPDU(v, f, 32, m, Prefix6, a) :
             v \in WireVersions, f \in {Withdraw, Announce}, m \in {48, 128}, a \in WireAsns }
    \cup { EndOfDataPDU(v, i, n, DefaultRefreshInterval, DefaultRetryInterval,
                        DefaultExpireInterval) :
             v \in WireVersions, i \in WireSessions, n \in WireSerials }
    \cup { cacheResetPDU(v) : v \in WireVersions }
    \cup { NewErrorReportBytes(ErrorReportVersion, e, o, t) :
             e \in {CorruptData, UnsupportedVersion},
             o \in SeqsUpTo({0, 255}, MaxLen), t \in SeqsUpTo({65}, MaxLen) }
WriteCalls == { [fn |-> "Write", p |-> p, done |-> FALSE] : p \in EmittedPDUs }

\* Router Key PDUs with a subject public key info of 0 to 12 bytes.
Ski == [i \in 1 .. 20 |-> i]
RouterKeyCalls ==
    { [fn |-> "WriteRouterKey", done |-> FALSE,
       p |-> RouterKeyPDU(v, 4660, Ski, a, [i \in 1 .. n |-> 100 + i])] :
        v \in WireVersions, a \in WireAsns, n \in {0, 1, 4, 8, 12} }

\* Calls of writeFull on buffers of up to MaxLen bytes: total is the
\* function's local, taken the bytes the writer has accepted so far, calls
\* the number of w.Write calls made, last what the latest of them returned,
\* ret the state of the call ("running", "nil" or "err").
WriteFullCalls ==
    { [fn |-> "writeFull", buf |-> b, total |-> 0, taken |-> << >>, calls |-> 0,
       last |-> [n |-> 0, err |-> FALSE], ret |-> "running"] :
        b \in SeqsUpTo({7, 9}, MaxLen) }

InitCalls ==
    /\ InitServer({})
    /\ call \in DiffCalls \cup ValidatedCalls \cup IsValidCalls
                \cup DecipherCalls \cup RoundTripCalls \cup GetPDUCalls
                \cup WriteCalls \cup RouterKeyCalls \cup WriteFullCalls

serverVars == << srv, shutdown, cache, mu, clients, refresher, sessionVars, gens >>

\* makeDiff is called and returns.
CallMakeDiff ==
    /\ call.fn = "makeDiff"
    /\ ~call.done
    /\ call' = [fn |-> "makeDiff", new |-> call.new, old |-> call.old, done |-> TRUE,
                res |-> makeDiff(call.new, call.old)]
    /\ UNCHANGED serverVars

\* GetSetOfValidatedROAs is called and returns; it is then called on its
\* own result.
CallGetSetOfValidatedROAs ==
    /\ call.fn = "GetSetOfValidatedROAs"
    /\ ~call.done
    /\ call' = [fn |-> "GetSetOfValidatedROAs", roas |-> call.roas, done |-> TRUE,
                res |-> GetSetOfValidatedROAs(call.roas),
                again |-> GetSetOfValidatedROAs(GetSetOfValidatedROAs(call.roas))]
    /\ UNCHANGED serverVars

\* isValid is called and returns.
CallIsValid ==
    /\ call.fn = "isValid"
    /\ ~call.done
    /\ call' = [fn |-> "isValid", roa |-> call.roa, done |-> TRUE,
                res |-> isValid(call.roa)]
    /\ UNCHANGED serverVars

\* decipherPDU is called on a byte string and returns, or panics.
CallDecipherPDU ==
    /\ call.fn = "decipherPDU"
    /\ ~call.done
    /\ call' = [fn |-> "decipherPDU", data |-> call.data, done |-> TRUE,
                res |-> decipherBytes(call.data)]
    /\ UNCHANGED serverVars

\* A PDU is written to a buffer and GetPDU reads the buffer back.
CallRoundTrip ==
    /\ call.fn = "roundTrip"
    /\ ~call.done
    /\ call' = [fn |-> "roundTrip", p |-> call.p, done |-> TRUE,
                written |-> WritePDU(call.p),
                got |-> GetPDUFrom(WritePDU(call.p).buf)]
    /\ UNCHANGED serverVars

\* GetPDU reads one PDU from the wire.
CallGetPDU ==
    /\ call.fn = "GetPDU"
    /\ ~call.done
    /\ call' = [fn |-> "GetPDU", r |-> call.r, done |-> TRUE,
                res |-> GetPDUFrom(call.r)]
    /\ UNCHANGED serverVars

\* A PDU the server emits is written to a buffer.
CallWrite ==
    /\ call.fn = "Write"
    /\ ~call.done
    /\ call' = [fn |-> "Write", p |-> call.p, done |-> TRUE, res |-> WritePDU(call.p)]
    /\ UNCHANGED serverVars

\* A Router Key PDU is written to a buffer.
CallWriteRouterKey ==
    /\ call.fn = "WriteRouterKey"
    /\ ~call.done
    /\ call' = [fn |-> "WriteRouterKey", p |-> call.p, done |-> TRUE,
                res |-> WriteRouterKey(call.p)]
    /\ UNCHANGED serverVars

\* A variant of writeFull that tries again after a write of 0 bytes.
writeFullAfter_Retry(total, n, err, len) ==
    IF err THEN "err"
    ELSE IF total + n < len THEN "running" ELSE "nil"
\* writeFull after w.Write returned (n, err): an error ends it, so does a
\* write of 0 bytes; otherwise total grows by n and the loop ends once
\* total has reached len(buf).
writeFullAfter(total, n, err, len) ==
    IF err THEN "err"
    ELSE IF n = 0 THEN "err"
    ELSE IF total + n < len THEN "running" ELSE "nil"

\* One turn of writeFull's loop. With nothing left (an empty buffer) it
\* returns nil; otherwise it hands buf[total:] to w.Write, which accepts
\* any number n of these bytes, from none to all, and reports an error or
\* none.
WriteFullTurn ==
    /\ call.fn = "writeFull"
    /\ call.ret = "running"
    /\ IF call.total >= Len(call.buf)
       THEN call' = [call EXCEPT !.ret = "nil"]
       ELSE \E n \in 0 .. Len(call.buf) - call.total, err \in BOOLEAN :
              call' = [call EXCEPT
                         !.calls = @ + 1,
                         !.last = [n |-> n, err |-> err],
                         !.taken = @ \o SubSeq(call.buf, call.total + 1, call.total + n),
                         !.total = IF ~err /\ n > 0 THEN @ + n ELSE @,
                         !.ret = writeFullAfter(call.total, n, err, Len(call.buf))]
    /\ UNCHANGED serverVars

NextCalls ==
    \/ CallMakeDiff
    \/ CallGetSetOfValidatedROAs
    \/ CallIsValid
    \/ CallDecipherPDU
    \/ CallRoundTrip
    \/ CallGetPDU
    \/ CallWrite
    \/ CallWriteRouterKey
    \/ WriteFullTurn

SpecCalls == InitCalls /\ [][NextCalls]_vars

\* The same calls, with writeFull's goroutine scheduled again and again and
\* every w.Write returning: a turn of its loop that can be taken is taken.
SpecCallsFair == SpecCalls /\ WF_vars(WriteFullTurn)

\* ------------------------------------------------------------- properties
\* The PDUs the session's own goroutine wrote since the peer's last PDU:
\* out without the Serial Notify PDUs, which only the refresher writes.
Resp(c) == SelectSeq(out[c], LAMBDA p : p.ptype # SerialNotify)
RespOf(o) == SelectSeq(o, LAMBDA p : p.ptype # SerialNotify)

Last(seq) == seq[Len(seq)]

\* One prefix PDU per ROA of the list, in its order, with the given flags.
PrefixPDUs(ver, flags, roas) ==
    [i \in 1 .. Len(roas) |-> NewPrefixPDU(ver, flags, roas[i])]

\* The End of Data the server sends for a session and a serial.
EoD(ver, session, serial) ==
    NewEndOfDataPDU(ver, session, serial, DefaultRefreshInterval,
                    DefaultRetryInterval, DefaultExpireInterval)

\* The handler of c has answered the query of type t and is back at its read.
Answered(c, t) == pc[c] = "loop" /\ open[c] /\ query[c].ptype = t

\* C1: the step that completes the answer to a Reset Query (the first query
\* of the session or a later one) leaves as the session's output: one Cache
\* Response with the cache session id, one prefix PDU with flags announce
\* for each ROA of the current ROA set, in order and no other, then one End
\* of Data with the cache session id and the current serial. With no ROA
\* the End of Data follows the Cache Response directly.
C1_ResetQueryResponse ==
    [][ \A c \in Conns :
          (pc[c] = "rq_eod_w" /\ pc'[c] = "loop") =>
             /\ query[c].ptype = ResetQuery
             /\ RespOf(out'[c]) =
                    << NewCacheResponsePDU(version[c], cache.session) >>
                    \o PrefixPDUs(version[c], Announce, cache.roas)
                    \o << EoD(version[c], cache.session, cache.serial) >>
      ]_vars

\* C1 witness: a Reset Query that was the second PDU of its session has been
\* answered with a Cache Response, two prefix PDUs and End of Data.
C1_Witness ==
    \E c \in Conns :
        /\ Answered(c, ResetQuery)
        /\ nread[c] = 2
        /\ Len(Resp(c)) = 4
        /\ Last(Resp(c)).ptype = EndOfData

\* The cache serial was S when the query of c was read and is S still.
SerialStable(c) == atRead[c] = cache.serial

\* C2: a Serial Query for s # 0 that is answered while the cache serial is
\* S = s gets exactly one Cache Response followed by exactly one End of Data
\* with serial S, and no prefix PDU.
C2_SerialQueryCurrent ==
    \A c \in Conns :
        ( /\ Answered(c, SerialQuery)
          /\ SerialStable(c)
          /\ query[c].serial # 0
          /\ query[c].serial = cache.serial )
        => Resp(c) = << NewCacheResponsePDU(version[c], cache.session),
                        EoD(version[c], cache.session, cache.serial) >>

\* C2 witness: a Serial Query for serial 2 answered at cache serial 2.
C2_Witness ==
    \E c \in Conns :
        /\ Answered(c, SerialQuery)
        /\ SerialStable(c)
        /\ query[c].serial = 2
        /\ cache.serial = 2
        /\ Len(Resp(c)) = 2

\* The generation installed last: the ROAs and the diff of the current serial.
CurrentGen == gens[cache.serial]

\* C3: a Serial Query for s = S - 1 that is answered while the cache serial
\* is S and the diff of generation S is not empty gets, in order: one Cache
\* Response, one prefix PDU with flags announce for every entry of
\* diff.added, one prefix PDU with flags withdraw for every entry of
\* diff.withdrawn, then one End of Data with serial S; no entry is left out,
\* sent twice or sent with the other flag.
C3_SerialQueryPrevious ==
    \A c \in Conns :
        ( /\ Answered(c, SerialQuery)
          /\ SerialStable(c)
          /\ query[c].serial = cache.serial - 1
          /\ Len(CurrentGen.addRoa) + Len(CurrentGen.delRoa) > 0 )
        => Resp(c) =
              << NewCacheResponsePDU(version[c], cache.session) >>
              \o PrefixPDUs(version[c], Announce, CurrentGen.addRoa)
              \o PrefixPDUs(version[c], Withdraw, CurrentGen.delRoa)
              \o << EoD(version[c], cache.session, cache.serial) >>

\* C3 witness: a Serial Query for S - 1 answered with a diff that announces
\* two ROAs and withdraws one.
C3_Witness ==
    \E c \in Conns :
        /\ Answered(c, SerialQuery)
        /\ SerialStable(c)
        /\ query[c].serial = cache.serial - 1
        /\ Len(CurrentGen.addRoa) = 2
        /\ Len(CurrentGen.delRoa) = 1
        /\ Len(Resp(c)) = 5

\* C4: a Serial Query for s = 0, whatever the cache serial, and a Serial
\* Query for an s that is neither S nor S - 1 while the cache serial is S,
\* get exactly one Cache Reset and nothing else: no Cache Response, no
\* prefix PDU, no End of Data.
C4_SerialQueryReset ==
    \A c \in Conns :
        ( /\ Answered(c, SerialQuery)
          /\ \/ query[c].serial = 0
             \/ /\ SerialStable(c)
                /\ query[c].serial # cache.serial
                /\ query[c].serial # cache.serial - 1 )
        => Resp(c) = << NewCacheResetPDU(version[c]) >>

\* C4 witness: a Serial Query for serial 0 answered at cache serial 1, where
\* 0 = S - 1, with one Cache Reset.
C4_Witness ==
    \E c \in Conns :
        /\ Answered(c, SerialQuery)
        /\ query[c].serial = 0
        /\ cache.serial = 1
        /\ atRead[c] = 1
        /\ Resp(c) = << NewCacheResetPDU(version[c]) >>
\* Prefix PDUs, and the places of the PDUs of one type in a sequence.
IsPrefix(p) == p.ptype \in {Ipv4Prefix, Ipv6Prefix}
Positions(o, t) == {i \in 1 .. Len(o) : o[i].ptype = t}

\* C5: in every interleaving with the refresher, the PDUs written to a
\* session for one answered query hold exactly one Cache Response and exactly
\* one End of Data with nothing but prefix PDUs between them (no Serial
\* Notify, no second Cache Response), and no End of Data is written without
\* a Cache Response before it.
C5_ResponseFraming ==
    \A c \in Conns :
        LET o == out[c]
            crs == Positions(o, CacheResponse)
            eods == Positions(o, EndOfData)
        IN /\ Cardinality(crs) <= 1
           /\ Cardinality(eods) <= 1
           /\ \A j \in eods :
                \E i \in crs : i < j /\ \A k \in (i + 1) .. (j - 1) : IsPrefix(o[k])
           /\ ( \/ Answered(c, ResetQuery)
                \/ Answered(c, SerialQuery) /\ Positions(o, CacheReset) = {} )
              => Cardinality(crs) = 1 /\ Cardinality(eods) = 1

\* C6: in every interleaving with the refresher, when the answer to a
\* Serial Query for s holds prefix PDUs, its End of Data carries serial
\* s + 1 and the prefix PDUs are exactly the diff of generation s + 1:
\* its additions announced, then its withdrawals withdrawn.
C6_DiffWithItsSerial ==
    \A c \in Conns :
        ( Answered(c, SerialQuery) /\ \E i \in 1 .. Len(Resp(c)) : IsPrefix(Resp(c)[i]) )
        => LET s == query[c].serial
               r == Resp(c)
           IN /\ Last(r).ptype = EndOfData
              /\ Last(r).serial = s + 1
              /\ s + 1 \in 1 .. Len(gens)
              /\ SelectSeq(r, IsPrefix) =
                     PrefixPDUs(version[c], Announce, gens[s + 1].addRoa)
                     \o PrefixPDUs(version[c], Withdraw, gens[s + 1].delRoa)

\* C7: in every interleaving with the refresher, the prefix PDUs of the
\* answer to one Reset Query are the ROA set of one installed generation,
\* and the End of Data that closes the answer carries the serial of that
\* same generation.
C7_ResetQuerySnapshot ==
    \A c \in Conns :
        Answered(c, ResetQuery)
        => \E S \in 1 .. Len(gens) :
              LET r == Resp(c) IN
              /\ Last(r).ptype = EndOfData
              /\ Last(r).serial = S
              /\ { r[i] : i \in { k \in 1 .. Len(r) : IsPrefix(r[k]) } }
                   = { NewPrefixPDU(version[c], Announce, gens[S].roas[i]) :
                         i \in 1 .. Len(gens[S].roas) }

\* C7 witness: a Reset Query read at one serial has been answered, with
\* prefix PDUs, after the refresher installed the next generation.
C7_Witness ==
    \E c \in Conns :
        /\ Answered(c, ResetQuery)
        /\ Len(Resp(c)) >= 3
        /\ Last(Resp(c)).ptype = EndOfData
        /\ Last(Resp(c)).serial > atRead[c]

RefusedWith(c, code) ==
    /\ ~open[c]
    /\ Len(Resp(c)) = 1
    /\ Resp(c)[1].ptype = ErrorReport
    /\ Resp(c)[1].code = code

\* C9: when a PDU after the first has a version field that differs from
\* the negotiated version, the server answers it with one Error Report of
\* code 8 (Unexpected Version) and closes, without serving the PDU.
C9_VersionPinned ==
    \A c \in Conns :
        ( /\ pc[c] \in {"loop", "closing"}
          /\ nread[c] >= 2
          /\ query[c] # NoPDU
          /\ query[c].version # version[c] )
        => RefusedWith(c, UnexpectedVersion)

\* C10: when the first PDU the decoder accepts after negotiation is an
\* Error Report, the server answers it with one Error Report of code 3
\* (Invalid Request) and closes.
C10_FirstPduNoQuery ==
    \A c \in Conns :
        ( /\ pc[c] \in {"loop", "closing"}
          /\ nread[c] = 1
          /\ query[c].ptype = ErrorReport )
        => RefusedWith(c, InvalidRequest)
\* The session's own output is one Error Report with the given code.
ErrorAnswer(o, code) ==
    /\ Len(RespOf(o)) = 1
    /\ RespOf(o)[1].ptype = ErrorReport
    /\ RespOf(o)[1].code = code

\* The handler of c is at a read, and the step taken reads the next PDU.
ReadsNext(c) ==
    /\ pc[c] \in {"initial", "loop"}
    /\ open[c]
    /\ inbox[c] # <<>>
    /\ pc'[c] # pc[c]

\* C11: when the handler reads a PDU of a supported version whose length
\* field is below 8 or above 65535, as first PDU of the session or later,
\* the server writes one Error Report with code 0 (Corrupt Data) and closes
\* the connection.
C11_BadLengthCorruptData ==
    [][ \A c \in Conns :
          ( /\ ReadsNext(c)
            /\ Head(inbox[c]).version \in {1, 2}
            /\ ( Head(inbox[c]).length < 8 \/ Head(inbox[c]).length > 65535 ) )
          => /\ ~open'[c]
             /\ pc'[c] = "closing"
             /\ ErrorAnswer(out'[c], CorruptData)
      ]_vars

\* C12: when the first bytes of a connection are the header of version 0,
\* type 99 and length 4, the server answers with one Error Report whose code
\* is 3 (Invalid Request) or 0 (Corrupt Data) and closes the connection.
C12_MalformedHeader ==
    \A c \in Conns :
        ( /\ sent[c] = 1
          /\ inbox[c] = << BuildMalformedPDU >>
          /\ pc[c] # "negotiate" )
        => /\ ~open[c]
           /\ pc[c] = "closing"
           /\ ErrorAnswer(out[c], InvalidRequest) \/ ErrorAnswer(out[c], CorruptData)

\* C13: when the handler reads a well-framed PDU of the negotiated version
\* whose type is not Serial Query, Reset Query or Error Report, the server
\* writes one Error Report with code 5 (Unsupported PDU) and closes the
\* connection.
C13_UnsupportedType ==
    [][ \A c \in Conns :
          ( /\ ReadsNext(c)
            /\ Head(inbox[c]).version = version[c]
            /\ Head(inbox[c]).length >= 8
            /\ Head(inbox[c]).length <= 65535
            /\ Head(inbox[c]).ptype \notin {SerialQuery, ResetQuery, ErrorReport} )
          => /\ GetPDU(Head(inbox[c])).err = "unsupported PDU type"
             /\ ~open'[c]
             /\ pc'[c] = "closing"
             /\ ErrorAnswer(out'[c], UnsupportedPDU)
      ]_vars

\* A Serial Notify is handed to the writer of some connection in this step.
NotifyWritten(c) ==
    /\ Len(out'[c]) = Len(out[c]) + 1
    /\ Last(out'[c]).ptype = SerialNotify

\* C14: a refresh that fetched R' against the current ROAs R installs, when
\* R' differs from R, the ROAs R', the diff of R' against R (the ROAs of R'
\* that R lacks as additions, those of R that R' lacks as deletions) and the
\* serial plus one; when R' does not differ from R it leaves ROAs, diff and
\* serial as they are and no session is notified. The cache changes in no
\* other way once the server runs.
C14_RefreshInstall ==
    [][ LET R == Last(gens).roas
            Rn == refresher.newROAs
        IN
        \* the tick goes on to install exactly when the lists differ
        /\ ( refresher.pc = "idle" /\ refresher'.pc # "idle" )
           => /\ \E r \in Roas :
                    Contains(refresher'.newROAs, r) # Contains(cache.roas, r)
              /\ cache.roas = R
        \* a tick that found no difference changes nothing and notifies nobody
        /\ ( srv = "running" /\ refresher.pc = "idle" /\ refresher'.pc = "idle" )
           => /\ cache' = cache
              /\ gens' = gens
              /\ \A c \in Conns : ~NotifyWritten(c)
        \* the installation
        /\ ( refresher.pc = "updated" /\ refresher'.pc # "updated" )
           => /\ cache'.roas = Rn
              /\ \A r \in Roas :
                    /\ Contains(cache'.diffs.addRoa, r)
                         <=> ( Contains(Rn, r) /\ ~Contains(R, r) )
                    /\ Contains(cache'.diffs.delRoa, r)
                         <=> ( Contains(R, r) /\ ~Contains(Rn, r) )
              /\ cache'.diffs.diff
              /\ cache'.serial = Len(gens) + 1
              /\ gens' = Append(gens, Generation(cache'))
        \* nothing else touches the cache or notifies
        /\ ( srv = "running" /\ cache' # cache ) => refresher.pc \in {"locked", "updated"}
        /\ ( \E c \in Conns : NotifyWritten(c) ) => refresher.pc = "notify"
        /\ ( srv = "running" /\ refresher.pc \notin {"updated"} )
           => cache.serial = Len(gens)
      ]_vars

\* A refresh has installed a second generation and is about to notify.
C14_Witness ==
    /\ refresher.pc = "notify"
    /\ cache.serial = 2
    /\ cache.roas = << Roa4 >>
    /\ cache.diffs.addRoa = << Roa4 >>
    /\ cache.diffs.delRoa = <<>>
    /\ Len(gens) = 2

\* C15: the cache session id is the one chosen at construction and never
\* changes; every Cache Response, End of Data and Serial Notify the server
\* writes carries it.
C15_SessionId ==
    [][ /\ cache.session \in SessionIds
        /\ cache'.session = cache.session
        /\ \A c \in Conns : \A i \in 1 .. Len(out'[c]) :
              out'[c][i].ptype \in {CacheResponse, EndOfData, SerialNotify}
              => out'[c][i].session = cache.session
      ]_vars

\* One router has received a Cache Response, a Serial Notify and an End of
\* Data since its last PDU, after two installations.
C15_Witness ==
    \E c \in Conns :
        /\ cache.serial = 3
        /\ \A t \in {CacheResponse, EndOfData, SerialNotify} :
              \E i \in 1 .. Len(out[c]) : out[c][i].ptype = t

\* The refresher's range over the clients produces c in this step.
NotifyTurn(c) ==
    /\ refresher.pc = "notify"
    /\ c \in refresher.toNotify
    /\ c \notin refresher'.toNotify

\* The Serial Notify PDUs of serial S that c was sent since its last PDU.
NotifiesOf(c, S) ==
    { i \in 1 .. Len(out[c]) : out[c][i].ptype = SerialNotify /\ out[c][i].serial = S }

\* C16: when the refresher installs serial S', every session registered at
\* that moment gets its turn in the notification loop before the loop ends,
\* and at its turn a session that is still registered with its connection
\* open is sent exactly one Serial Notify with the cache session id and
\* serial S'. A Serial Notify is written at no other time, so a refresh
\* that installs nothing sends none.
C16_NotifyEverySession ==
    [][ /\ ( refresher.pc = "updated" /\ refresher'.pc = "notify" )
           => refresher'.toNotify = clients
        /\ \A c \in Conns :
              /\ ( NotifyTurn(c) /\ c \in clients /\ open[c] )
                 => /\ cache.serial = Len(gens)
                    /\ out'[c] = Append(out[c],
                          NewSerialNotifyPDU(version[c], cache.session, Len(gens)))
              /\ ( c \in refresher.toNotify /\ c \notin refresher'.toNotify )
                 => NotifyTurn(c) /\ refresher'.pc = "notify"
              /\ NotifyWritten(c) => NotifyTurn(c)
              /\ \A S \in 1 .. MaxSerial : Cardinality(NotifiesOf(c, S)) <= 1
        /\ ( refresher.pc = "notify" /\ refresher'.pc # "notify" )
           => refresher.toNotify = {}
      ]_vars

\* Both routers were registered at the installation of serial 2 and both
\* have been sent its Serial Notify.
C16_Witness ==
    /\ refresher.pc = "idle"
    /\ clients = Conns
    /\ \A c \in Conns : Cardinality(NotifiesOf(c, 2)) = 1

\* C17: the delivery of a Serial Notify does not block the refresher: at
\* every turn of its notification loop the call of notify can return,
\* also for a session whose peer has stopped reading, so that the loop can
\* finish and the next tick be taken.
C17_NotifyDoesNotBlock ==
    \A c \in Conns :
        ( refresher.pc = "notify" /\ c \in refresher.toNotify )
        => ENABLED RefreshNotify(c)

Answering(c) ==
    pc[c] \notin {"absent", "none", "negotiate", "initial", "loop", "closing", "done"}

\* C19: a session whose peer keeps reading makes progress whatever the
\* other sessions and the refresher do: while its handler is answering a
\* query, either the handler can take its next step or it waits for the
\* cache lock and the refresher, which holds or requests it, can take its
\* next step.
C19_IndependentProgress ==
    \A c \in Conns :
        ( Answering(c) /\ open[c] /\ c \notin stalled )
        => ENABLED Handler(c) \/ ENABLED Refresher

\* C20: no connection is accepted before the initial ROA set is installed
\* with serial 1 and an empty diff: the server starts to listen in the step
\* that installs the initial fetch, a connection is accepted only by a
\* listening server, the refresher makes no step before, and a server
\* whose initial fetch failed never listens.
C20_PrimedBeforeListening ==
    [][ /\ ( srv = "new" /\ srv' = "running" )
           => /\ cache'.roas \in RoaLists
              /\ cache'.serial = 1
              /\ ~isDiffs(cache')
              /\ ~cache'.diffs.diff
              /\ gens' = << Generation(cache') >>
        /\ \A c \in Conns :
              ( pc[c] = "none" /\ pc'[c] # "none" )
              => /\ srv = "running"
                 /\ Len(gens) >= 1
                 /\ gens[1].addRoa = <<>>
                 /\ gens[1].delRoa = <<>>
        /\ srv # "running"
           => /\ clients' = {}
              /\ refresher' = refresher
              /\ \A c \in Conns : pc'[c] \in {"none", "absent"} /\ ~open'[c]
        /\ srv = "failed" => srv' = "failed"
        /\ srv = "running" => srv' = "running"
      ]_vars

\* A connection has been accepted by the server while the initial ROA set
\* is the one installed.
C20_Witness ==
    \E c \in Conns :
        /\ srv = "running"
        /\ pc[c] = "negotiate"
        /\ c \in clients
        /\ cache.serial = 1
        /\ Len(gens) = 1
        /\ cache.roas = << Roa4 >>

\* C21: a refresh tick whose fetch fails leaves the cache's ROAs, diff,
\* serial and session as they are and sends no Serial Notify, and the
\* refresher is back at the head of its loop, where the next tick can be
\* taken.
C21_FailedFetch ==
    [][ /\ ( refresher.pc = "idle" /\ refresher'.err /\ refresher' # refresher )
           => /\ cache' = cache
              /\ gens' = gens
              /\ out' = out
              /\ refresher'.pc = "idle"
              /\ UNCHANGED << srv, shutdown, call, mu, clients >>
        /\ refresher.err => ( refresher.pc = "idle" /\ ENABLED RefreshTick )
      ]_vars

\* The fetch of a tick has failed after serial 2 was installed, with a
\* session registered.
C21_Witness ==
    /\ refresher.err
    /\ cache.serial = 2
    /\ cache.roas # <<>>
    /\ clients # {}

\* C22: once Stop has been invoked, at whatever point of the server's life,
\* no connection is accepted or registered any more.
C22_StopStopsAccepting ==
    [][ shutdown.shuttingDown
        => /\ clients' \subseteq clients
           /\ \A c \in Conns : pc[c] = "none" => pc'[c] = "none"
      ]_vars

\* C23: after Stop has been invoked every active session terminates
\* without its peer having to disconnect: the handler of a session whose
\* peer stays connected and silent can take a step that leads it out.
C23_StopEndsSessions ==
    \A c \in Conns :
        ( /\ shutdown.shuttingDown
          /\ c \in Active
          /\ ~peerClosed[c] )
        => ENABLED ( Handler(c) \/ Deregister(c) )

\* C24: the Error Report with which the server rejects an unsupported
\* version has code 4, an empty enclosed PDU (enclosed-PDU length 0) and a
\* non-empty text.
C24_UnsupportedVersionReport ==
    \A c \in Conns :
        ( /\ pc[c] = "closing"
          /\ version[c] = 0
          /\ inbox[c] # <<>>
          /\ Head(inbox[c]).version \notin supportedVersions )
        => /\ Len(out[c]) = 1
           /\ out[c][1].ptype = ErrorReport
           /\ out[c][1].code = UnsupportedVersion
           /\ out[c][1].pduLen = 0
           /\ out[c][1].textLen > 0

\* The elements of seq that other lacks, in the order of seq.
RECURSIVE Without(_, _)
Without(seq, other) ==
    IF seq = <<>> THEN <<>>
    ELSE IF \E i \in 1 .. Len(other) : other[i] = Head(seq)
         THEN Without(Tail(seq), other)
         ELSE << Head(seq) >> \o Without(Tail(seq), other)

Elems(seq) == { seq[i] : i \in 1 .. Len(seq) }

DiffReturned == call.fn = "makeDiff" /\ call.done

\* C25: makeDiff(new, old) returns as additions the elements of new that
\* are not in old, in the order of new, as withdrawals the elements of old
\* that are not in new, in the order of old, and diff = TRUE exactly when
\* one of the two is non-empty; equal lists give an empty diff.
C25_MakeDiff ==
    DiffReturned
    => /\ call.res.addRoa = Without(call.new, call.old)
       /\ call.res.delRoa = Without(call.old, call.new)
       /\ call.res.diff <=> ( call.res.addRoa # <<>> \/ call.res.delRoa # <<>> )
       /\ call.new = call.old
          => ( call.res.addRoa = <<>> /\ call.res.delRoa = <<>> /\ ~call.res.diff )

\* makeDiff has returned two additions, in the order of new, and a
\* withdrawal.
C25_Witness ==
    /\ DiffReturned
    /\ call.new = << Roa6, Roa4 >>
    /\ call.old = << Roa4b >>
    /\ call.res.addRoa = << Roa6, Roa4 >>
    /\ call.res.delRoa = << Roa4b >>
    /\ call.res.diff

NoDup(seq) == \A i, j \in 1 .. Len(seq) : seq[i] = seq[j] => i = j

\* C26: for duplicate-free lists new and old, with (added, withdrawn) the
\* result of makeDiff(new, old): new without added, plus withdrawn, is old
\* as a set, and old without withdrawn, plus added, is new.
C26_DiffInverse ==
    ( DiffReturned /\ NoDup(call.new) /\ NoDup(call.old) )
    => /\ ( Elems(call.new) \ Elems(call.res.addRoa) ) \cup Elems(call.res.delRoa)
            = Elems(call.old)
       /\ ( Elems(call.old) \ Elems(call.res.delRoa) ) \cup Elems(call.res.addRoa)
            = Elems(call.new)

\* makeDiff has returned for two duplicate-free lists that share a ROA and
\* each have one of their own.
C26_Witness ==
    /\ DiffReturned
    /\ call.new = << Roa4, Roa6 >>
    /\ call.old = << Roa4, Roa4b >>
    /\ call.res.addRoa = << Roa6 >>
    /\ call.res.delRoa = << Roa4b >>

\* What the specification calls a valid ROA.
Validate(roa) ==
    /\ roa.maxMask >= 1
    /\ roa.bits <= roa.maxMask
    /\ roa.maxMask <= ( IF roa.fam = 4 THEN 32 ELSE 128 )

\* Position of the first occurrence of x in seq.
FirstAt(seq, x) == CHOOSE i \in 1 .. Len(seq) : seq[i] = x /\ \A j \in 1 .. i - 1 : seq[j] # x

\* C27: GetSetOfValidatedROAs returns exactly the valid ROAs of its input,
\* each once, in the order of their first occurrence, and applied to its
\* own result it returns that result.
C27_ValidatedSet ==
    ( call.fn = "GetSetOfValidatedROAs" /\ call.done )
    => /\ NoDup(call.res)
       /\ Elems(call.res) = { r \in Elems(call.roas) : Validate(r) }
       /\ \A i, j \in 1 .. Len(call.res) :
             i < j => FirstAt(call.roas, call.res[i]) < FirstAt(call.roas, call.res[j])
       /\ call.again = call.res

\* A list with a repeated valid ROA and an invalid one has been reduced
\* to its two valid ROAs.
C27_Witness ==
    /\ call.fn = "GetSetOfValidatedROAs"
    /\ call.done
    /\ call.roas = << Roa4b, RoaOver, Roa4b >>
    /\ call.res = << Roa4b >>

\* C28: isValid(roa) is true if and only if max_length >= 1, prefix_length
\* <= max_length, and max_length <= 32 for an IPv4 prefix, <= 128 for an
\* IPv6 prefix.
C28_IsValid ==
    ( call.fn = "isValid" /\ call.done )
    => ( call.res <=> Validate(call.roa) )

\* isValid has accepted the IPv4 ROA with prefix length 32 and maximum
\* length 32.
C28_Witness ==
    /\ call.fn = "isValid"
    /\ call.done
    /\ call.roa.fam = 4
    /\ call.roa.bits = 32
    /\ call.roa.maxMask = 32
    /\ call.res

\* C29: on every byte string, of whatever length, decipherPDU returns a
\* PDU of one of the three types it accepts or an error; no slice it takes
\* is out of the string's bounds, whatever the enclosed-PDU-length and
\* text-length fields of an Error Report hold.
C29_DecipherTotal ==
    ( call.fn = "decipherPDU" /\ call.done )
    => /\ call.res.kind \in {"pdu", "err"}
       /\ call.res.kind = "pdu"
            => /\ call.res.pdu.ptype \in {SerialQuery, ResetQuery, ErrorReport}
               /\ call.res.pdu.ptype = call.data[2]
               /\ call.res.pdu.ptype = ErrorReport
                    => /\ Len(call.res.pdu.pdu) = call.res.pdu.pduLen
                       /\ Len(call.res.pdu.text) = call.res.pdu.textLen
                       /\ 12 + call.res.pdu.pduLen + 4 + call.res.pdu.textLen
                            <= Len(call.data)

\* An Error Report announcing an enclosed PDU longer than what is left of
\* the buffer has been answered with an error.
C29_Witness ==
    /\ call.fn = "decipherPDU"
    /\ call.done
    /\ Len(call.data) = 20
    /\ call.data[2] = ErrorReport
    /\ Uint32(SubSeq(call.data, 9, 12)) = 5
    /\ call.res.kind = "err"

\* C30: a Serial Query, a Reset Query or an Error Report built by its
\* constructor is written without error, and GetPDU on the written bytes
\* returns a PDU with the same fields.
C30_RoundTrip ==
    ( call.fn = "roundTrip" /\ call.done )
    => /\ ~call.written.err
       /\ call.got.kind = "pdu"
       /\ call.got.pdu = call.p

\* An Error Report with an enclosed PDU and a text has come back.
C30_Witness ==
    /\ call.fn = "roundTrip"
    /\ call.done
    /\ call.p.ptype = ErrorReport
    /\ call.p.pdu = << 255, 0 >>
    /\ call.p.text = << 65, 255, 65 >>
    /\ call.got.kind = "pdu"
    /\ call.got.pdu.text = << 65, 255, 65 >>

\* C31: the decoder rejects a Serial Query whose framed length is not 12
\* and a Reset Query whose framed length is not 8, returning an error and
\* no PDU, and accepts an Error Report only if 12 + pduLen + 4 + textLen is
\* at most the framed length.
C31_LengthMatchesType ==
    ( call.fn = "GetPDU" /\ call.done /\ Len(call.r) >= 8 )
    => LET length == Uint32(SubSeq(call.r, 5, 8)) IN
       /\ ( call.r[2] = SerialQuery /\ length # serialQueryLength )
            => call.res.kind = "err"
       /\ ( call.r[2] = ResetQuery /\ length # resetQueryLength )
            => call.res.kind = "err"
       /\ ( call.r[2] = ErrorReport /\ call.res.kind = "pdu" )
            => 12 + call.res.pdu.pduLen + 4 + call.res.pdu.textLen <= length

\* The size the specification declares for each emitted type.
DeclaredSize(p) ==
    CASE p.ptype = SerialNotify -> 12
      [] p.ptype = CacheResponse -> 8
      [] p.ptype = Ipv4Prefix -> 20
      [] p.ptype = Ipv6Prefix -> 32
      [] p.ptype = EndOfData -> 24
      [] p.ptype = CacheReset -> 8
      [] p.ptype = ErrorReport -> 16 + Len(p.pdu) + Len(p.text)

\* Bytes lo .. hi (counted from 0, hi excluded) of b.
Bytes(b, lo, hi) == SubSeq(b, lo + 1, hi)

\* The declared layout of the bytes after version and type.
DeclaredLayout(p, b) ==
    CASE p.ptype = SerialNotify ->
           Uint16(Bytes(b, 2, 4)) = p.session /\ Uint32(Bytes(b, 8, 12)) = p.serial
      [] p.ptype = CacheResponse -> Uint16(Bytes(b, 2, 4)) = p.session
      [] p.ptype = Ipv4Prefix ->
           /\ Bytes(b, 2, 4) = << 0, 0 >>
           /\ Bytes(b, 8, 12) = << p.flags, p.min, p.max, 0 >>
           /\ Bytes(b, 12, 16) = p.prefix
           /\ Uint32(Bytes(b, 16, 20)) = p.asn
      [] p.ptype = Ipv6Prefix ->
           /\ Bytes(b, 2, 4) = << 0, 0 >>
           /\ Bytes(b, 8, 12) = << p.flags, p.min, p.max, 0 >>
           /\ Bytes(b, 12, 28) = p.prefix
           /\ Uint32(Bytes(b, 28, 32)) = p.asn
      [] p.ptype = EndOfData ->
           /\ Uint16(Bytes(b, 2, 4)) = p.session
           /\ Uint32(Bytes(b, 8, 12)) = p.serial
           /\ Uint32(Bytes(b, 12, 16)) = p.refresh
           /\ Uint32(Bytes(b, 16, 20)) = p.retry
           /\ Uint32(Bytes(b, 20, 24)) = p.expire
      [] p.ptype = CacheReset -> Bytes(b, 2, 4) = << 0, 0 >>
      [] p.ptype = ErrorReport ->
           /\ Uint16(Bytes(b, 2, 4)) = p.code
           /\ Uint32(Bytes(b, 8, 12)) = Len(p.pdu)
           /\ Bytes(b, 12, 12 + Len(p.pdu)) = p.pdu
           /\ Uint32(Bytes(b, 12 + Len(p.pdu), 16 + Len(p.pdu))) = Len(p.text)
           /\ Bytes(b, 16 + Len(p.pdu), 16 + Len(p.pdu) + Len(p.text)) = p.text

\* C32: for every PDU the server emits, Write puts out as many bytes as
\* the header's length field says, that number is the declared size of the
\* type, the reserved fields are zero and the body fields are in the
\* declared big-endian layout.
C32_EncodedLayout ==
    ( call.fn = "Write" /\ call.done )
    => /\ ~call.res.err
       /\ Len(call.res.buf) = Uint32(Bytes(call.res.buf, 4, 8))
       /\ Len(call.res.buf) = DeclaredSize(call.p)
       /\ call.res.buf[1] = call.p.version
       /\ call.res.buf[2] = call.p.ptype
       /\ DeclaredLayout(call.p, call.res.buf)

\* An IPv4 Prefix PDU whose prefix length and maximum length differ has
\* been written in 20 bytes.
C32_Witness ==
    /\ call.fn = "Write"
    /\ call.done
    /\ call.p.ptype = Ipv4Prefix
    /\ call.p.min = 24
    /\ call.p.max = 32
    /\ Len(call.res.buf) = 20

\* C33: for a Router Key PDU built by NewRouterKeyPDU with an SPKI of any
\* length, Write succeeds and emits the 8-byte header, the 20-byte SKI, the
\* 4-byte ASN and every SPKI byte, and the header's length field is the
\* number of bytes emitted.
C33_RouterKeyWrite ==
    ( call.fn = "WriteRouterKey" /\ call.done )
    => /\ call.res.kind = "ok"
       /\ Bytes(call.res.buf, 8, 28) = call.p.ski
       /\ Uint32(Bytes(call.res.buf, 28, 32)) = call.p.asn
       /\ Bytes(call.res.buf, 32, Len(call.res.buf)) = call.p.skiInfo
       /\ Uint32(Bytes(call.res.buf, 4, 8)) = Len(call.res.buf)

\* The read locks a session holds at each position of its handler: one
\* from c.rlock() in sendCacheResponse, sendAllROAS, sendDiffs and
\* sendEndOfDataPDU until the deferred c.runlock(), two inside the
\* sendEndOfDataPDU that sendAllROAS calls.
LocksHeld(c) ==
    IF pc[c] = "rq_eod_w" THEN 2
    ELSE IF pc[c] \in {"rq_cr_w", "eq_cr_w", "pv_cr_w", "rq_get", "rq_pfx", "rq_eod",
                       "df_get", "df_add", "df_del", "sq_eod_w"} THEN 1
    ELSE 0

\* The positions at which the session's next step is a Write or a Flush on
\* its connection.
InSocketIO(c) ==
    pc[c] \in {"rq_cr_w", "eq_cr_w", "pv_cr_w", "rq_pfx", "rq_eod_w",
               "df_add", "df_del", "sq_eod_w"}

\* C34: a session that is inside a Write or Flush on its connection holds
\* no cache lock.
C34_NoLockAcrossIO ==
    \A c \in Conns : InSocketIO(c) => LocksHeld(c) = 0

\* The refresher's range over s.clients is under way.
Ranging == refresher.pc = "notify"

\* C35: accesses to the client registry exclude one another: while the
\* refresher ranges over the registered sessions, no session is registered
\* and none is deregistered.
C35_RegistryExclusive ==
    [][ Ranging => clients' = clients ]_vars

\* C36: writeFull terminates whatever the writer does: it makes at most
\* len(buf) calls of w.Write and then has returned. It returns nil only
\* after the writer has accepted every byte of buf once and in order (what
\* the writer has accepted is at every moment a prefix of buf, a short
\* write being followed by a write of the rest), and it returns an error
\* after a write that reported one or that accepted 0 bytes.
C36_WriteFull ==
    /\ [] ( call.fn = "writeFull"
            => /\ call.calls <= Len(call.buf)
               /\ call.taken = SubSeq(call.buf, 1, Len(call.taken))
               /\ call.ret = "nil" => call.taken = call.buf
               /\ ( call.calls > 0 /\ ( call.last.err \/ call.last.n = 0 ) )
                    => call.ret = "err" )
    /\ ( call.fn = "writeFull"
           ~> ( call.fn = "writeFull" /\ call.ret \in {"nil", "err"} ) )

\* A buffer of three bytes has been written by two calls, the first of
\* them a short write.
C36_Witness ==
    /\ call.fn = "writeFull"
    /\ call.ret = "nil"
    /\ Len(call.buf) = 3
    /\ call.calls = 2
    /\ call.taken = call.buf

\* A session is blocked in RLock: it is at one of the calls of c.rlock(),
\* of getRoas or of getDiffs, and a writer holds the mutex or waits for it.
WaitsForRLock(c) ==
    /\ pc[c] \in {"rq_cr", "eq_cr", "pv_cr", "rq_all", "rq_get", "rq_eod",
                  "df", "df_get", "sq_eod"}
    /\ ~CanRLock

\* The refresher is blocked in Lock.
WaitsForLock == refresher.pc = "lockwait" /\ ~CanLock

\* C37: the cache lock protocol is free of deadlock: while the refresher
\* waits for the write lock, a session that holds a read lock can take its
\* next step, and while a session waits for a read lock, the refresher or
\* another session that holds a read lock can take its next step; this
\* includes the session that takes the read lock again inside sendAllROAS
\* or sendDiffs.
C37_LockDeadlockFree ==
    /\ WaitsForLock
         => \E c \in Conns : LocksHeld(c) > 0 /\ ENABLED Handler(c)
    /\ \A c \in Conns :
         WaitsForRLock(c)
         => \/ ENABLED Refresher
            \/ \E d \in Conns \ {c} : LocksHeld(d) > 0 /\ ENABLED Handler(d)

\* Every End of Data of the sequence has a Cache Response before it.
EndOfDataAfterResponse(seq) ==
    \A i \in 1 .. Len(seq) :
        seq[i].ptype = EndOfData
        => \E j \in 1 .. i - 1 : seq[j].ptype = CacheResponse

C39_NegotiatedVersion ==
    \A c \in Conns :
        \A i \in 1 .. Len(out[c]) :
            /\ out[c][i].version \in supportedVersions
            /\ version[c] # 0 => out[c][i].version = version[c]

\* What handleSerialQuery writes for a query for serial s on a session of
\* version ver while the cache holds the generation installed last: a
\* function of s, ver and the cache, in which the session-id field of the
\* query does not occur.
SerialQueryResponse(s, ver) ==
    IF s = 0 THEN << NewCacheResetPDU(ver) >>
    ELSE IF s = cache.serial
         THEN << NewCacheResponsePDU(ver, cache.session),
                 EoD(ver, cache.session, cache.serial) >>
    ELSE IF s = cache.serial - 1
         THEN IF Len(CurrentGen.addRoa) + Len(CurrentGen.delRoa) > 0
              THEN << NewCacheResponsePDU(ver, cache.session) >>
                   \o PrefixPDUs(ver, Announce, CurrentGen.addRoa)
                   \o PrefixPDUs(ver, Withdraw, CurrentGen.delRoa)
                   \o << EoD(ver, cache.session, cache.serial) >>
              ELSE << EoD(ver, cache.session, cache.serial) >>
    ELSE << NewCacheResetPDU(ver) >>

\* C40: the response to a Serial Query that is answered while the cache
\* state has not changed since the query was read is a function of the
\* query's serial, the session's version and the cache state; so two
\* Serial Queries that differ only in their session-id field get the same
\* response, whether the field holds the session id of the cache or not.
C40_SessionIdIgnored ==
    \A c \in Conns :
        ( Answered(c, SerialQuery) /\ SerialStable(c) )
        => Resp(c) = SerialQueryResponse(query[c].serial, version[c])

\* C40 witness: a Serial Query for serial 1 whose session-id field is not
\* the session id of the cache has been answered at cache serial 2 with the
\* Cache Response, the diff and the End of Data.
C40_Witness ==
    \E c \in Conns :
        /\ Answered(c, SerialQuery)
        /\ SerialStable(c)
        /\ query[c].serial = 1
        /\ query[c].session # getSession(cache)
        /\ getSerial(cache) = 2
        /\ Len(Resp(c)) >= 3
        /\ Last(Resp(c)).ptype = EndOfData

====
